---- MODULE Spec2Model ----
(***************************************************************************)
(* Streaming sentence segmentation and synchronized synthesis of the      *)
(* video-analysis-soul engine: the Boundary Detector                      *)
(* (common/utils/text.py), the Stream Orchestrator and the TTS gate       *)
(* (core/engine.py), and the event protocol the client replays; and the   *)
(* download page of video-analysis-web, which reads a stream of records   *)
(* (api/index.ts, App.vue).                                                *)
(*                                                                         *)
(* A text is a sequence of characters; a character is a one-character     *)
(* string, and a character outside ASCII is written by its code point     *)
(* ("U+3002" is the ideographic full stop).  Offsets returned by the      *)
(* detector are Python offsets (0-based), -1 meaning "no boundary yet".   *)
(***************************************************************************)
EXTENDS Integers, Sequences, FiniteSets

(***************************************************************************)
(* Bounds of the model.                                                    *)
(***************************************************************************)
\* the producer cuts its text into chunks of 1..MaxChunk characters, or of
\* LongChunk characters: a chunk long enough to hold a boundary and, behind it,
\* a text in which the detector finds another one
MaxChunk == 3
LongChunk == 10
\* the timeout window of a synthesis call (30 s), in ticks of the clock
TimeoutTicks == 2
\* a read of the response body hands out 1..MaxRead bytes, or all that is left
MaxRead == 2

(***************************************************************************)
(* Policy constants.                                                       *)
(***************************************************************************)
\* StreamingConfig.max_bubbles
max_bubbles == 4
\* minimum accumulated length for any boundary (tiers 1 and 2 need only this)
min_len == 8
\* tier floors: stop, semicolon / ellipsis, exclamation / question,
\* bare newline, comma
STOP_MIN == 20
SEMI_MIN == 30
EXCL_MIN_as_stop == STOP_MIN
EXCL_MIN == 80
NEWLINE_MIN == 20
COMMA_MIN == 80
\* asyncio.Semaphore(1): the number of synthesis calls admitted at once
TTS_CONCURRENCY_TWO == 1 + 1
TTS_CONCURRENCY == 1

(***************************************************************************)
(* Characters.                                                             *)
(***************************************************************************)
NL == "\n"
\* \d of the list pattern: the pattern is a str pattern, so \d is every character
\* of the Unicode category Nd, the ASCII digits and the digits of other scripts
Digits ==
    {"0", "1", "2", "3", "4", "5", "6", "7", "8", "9", "U+660", "U+661", "U+662",
     "U+663", "U+664", "U+665", "U+666", "U+667", "U+668", "U+669", "U+6F0", "U+6F1",
     "U+6F2", "U+6F3", "U+6F4", "U+6F5", "U+6F6", "U+6F7", "U+6F8", "U+6F9", "U+7C0",
     "U+7C1", "U+7C2", "U+7C3", "U+7C4", "U+7C5", "U+7C6", "U+7C7", "U+7C8", "U+7C9",
     "U+966", "U+967", "U+968", "U+969", "U+96A", "U+96B", "U+96C", "U+96D", "U+96E",
     "U+96F", "U+9E6", "U+9E7", "U+9E8", "U+9E9", "U+9EA", "U+9EB", "U+9EC", "U+9ED",
     "U+9EE", "U+9EF", "U+A66", "U+A67", "U+A68", "U+A69", "U+A6A", "U+A6B", "U+A6C",
     "U+A6D", "U+A6E", "U+A6F", "U+AE6", "U+AE7", "U+AE8", "U+AE9", "U+AEA", "U+AEB",
     "U+AEC", "U+AED", "U+AEE", "U+AEF", "U+B66", "U+B67", "U+B68", "U+B69", "U+B6A",
     "U+B6B", "U+B6C", "U+B6D", "U+B6E", "U+B6F", "U+BE6", "U+BE7", "U+BE8", "U+BE9",
     "U+BEA", "U+BEB", "U+BEC", "U+BED", "U+BEE", "U+BEF", "U+C66", "U+C67", "U+C68",
     "U+C69", "U+C6A", "U+C6B", "U+C6C", "U+C6D", "U+C6E", "U+C6F", "U+CE6", "U+CE7",
     "U+CE8", "U+CE9", "U+CEA", "U+CEB", "U+CEC", "U+CED", "U+CEE", "U+CEF", "U+D66",
     "U+D67", "U+D68", "U+D69", "U+D6A", "U+D6B", "U+D6C", "U+D6D", "U+D6E", "U+D6F",
     "U+DE6", "U+DE7", "U+DE8", "U+DE9", "U+DEA", "U+DEB", "U+DEC", "U+DED", "U+DEE",
     "U+DEF", "U+E50", "U+E51", "U+E52", "U+E53", "U+E54", "U+E55", "U+E56", "U+E57",
     "U+E58", "U+E59", "U+ED0", "U+ED1", "U+ED2", "U+ED3", "U+ED4", "U+ED5", "U+ED6",
     "U+ED7", "U+ED8", "U+ED9", "U+F20", "U+F21", "U+F22", "U+F23", "U+F24", "U+F25",
     "U+F26", "U+F27", "U+F28", "U+F29", "U+1040", "U+1041", "U+1042", "U+1043",
     "U+1044", "U+1045", "U+1046", "U+1047", "U+1048", "U+1049", "U+1090", "U+1091",
     "U+1092", "U+1093", "U+1094", "U+1095", "U+1096", "U+1097", "U+1098", "U+1099",
     "U+17E0", "U+17E1", "U+17E2", "U+17E3", "U+17E4", "U+17E5", "U+17E6", "U+17E7",
     "U+17E8", "U+17E9", "U+1810", "U+1811", "U+1812", "U+1813", "U+1814", "U+1815",
     "U+1816", "U+1817", "U+1818", "U+1819", "U+1946", "U+1947", "U+1948", "U+1949",
     "U+194A", "U+194B", "U+194C", "U+194D", "U+194E", "U+194F", "U+19D0", "U+19D1",
     "U+19D2", "U+19D3", "U+19D4", "U+19D5", "U+19D6", "U+19D7", "U+19D8", "U+19D9",
     "U+1A80", "U+1A81", "U+1A82", "U+1A83", "U+1A84", "U+1A85", "U+1A86", "U+1A87",
     "U+1A88", "U+1A89", "U+1A90", "U+1A91", "U+1A92", "U+1A93", "U+1A94", "U+1A95",
     "U+1A96", "U+1A97", "U+1A98", "U+1A99", "U+1B50", "U+1B51", "U+1B52", "U+1B53",
     "U+1B54", "U+1B55", "U+1B56", "U+1B57", "U+1B58", "U+1B59", "U+1BB0", "U+1BB1",
     "U+1BB2", "U+1BB3", "U+1BB4", "U+1BB5", "U+1BB6", "U+1BB7", "U+1BB8", "U+1BB9",
     "U+1C40", "U+1C41", "U+1C42", "U+1C43", "U+1C44", "U+1C45", "U+1C46", "U+1C47",
     "U+1C48", "U+1C49", "U+1C50", "U+1C51", "U+1C52", "U+1C53", "U+1C54", "U+1C55",
     "U+1C56", "U+1C57", "U+1C58", "U+1C59", "U+A620", "U+A621", "U+A622", "U+A623",
     "U+A624", "U+A625", "U+A626", "U+A627", "U+A628", "U+A629", "U+A8D0", "U+A8D1",
     "U+A8D2", "U+A8D3", "U+A8D4", "U+A8D5", "U+A8D6", "U+A8D7", "U+A8D8", "U+A8D9",
     "U+A900", "U+A901", "U+A902", "U+A903", "U+A904", "U+A905", "U+A906", "U+A907",
     "U+A908", "U+A909", "U+A9D0", "U+A9D1", "U+A9D2", "U+A9D3", "U+A9D4", "U+A9D5",
     "U+A9D6", "U+A9D7", "U+A9D8", "U+A9D9", "U+A9F0", "U+A9F1", "U+A9F2", "U+A9F3",
     "U+A9F4", "U+A9F5", "U+A9F6", "U+A9F7", "U+A9F8", "U+A9F9", "U+AA50", "U+AA51",
     "U+AA52", "U+AA53", "U+AA54", "U+AA55", "U+AA56", "U+AA57", "U+AA58", "U+AA59",
     "U+ABF0", "U+ABF1", "U+ABF2", "U+ABF3", "U+ABF4", "U+ABF5", "U+ABF6", "U+ABF7",
     "U+ABF8", "U+ABF9", "U+FF10", "U+FF11", "U+FF12", "U+FF13", "U+FF14", "U+FF15",
     "U+FF16", "U+FF17", "U+FF18", "U+FF19", "U+104A0", "U+104A1", "U+104A2", "U+104A3",
     "U+104A4", "U+104A5", "U+104A6", "U+104A7", "U+104A8", "U+104A9", "U+10D30",
     "U+10D31", "U+10D32", "U+10D33", "U+10D34", "U+10D35", "U+10D36", "U+10D37",
     "U+10D38", "U+10D39", "U+11066", "U+11067", "U+11068", "U+11069", "U+1106A",
     "U+1106B", "U+1106C", "U+1106D", "U+1106E", "U+1106F", "U+110F0", "U+110F1",
     "U+110F2", "U+110F3", "U+110F4", "U+110F5", "U+110F6", "U+110F7", "U+110F8",
     "U+110F9", "U+11136", "U+11137", "U+11138", "U+11139", "U+1113A", "U+1113B",
     "U+1113C", "U+1113D", "U+1113E", "U+1113F", "U+111D0", "U+111D1", "U+111D2",
     "U+111D3", "U+111D4", "U+111D5", "U+111D6", "U+111D7", "U+111D8", "U+111D9",
     "U+112F0", "U+112F1", "U+112F2", "U+112F3", "U+112F4", "U+112F5", "U+112F6",
     "U+112F7", "U+112F8", "U+112F9", "U+11450", "U+11451", "U+11452", "U+11453",
     "U+11454", "U+11455", "U+11456", "U+11457", "U+11458", "U+11459", "U+114D0",
     "U+114D1", "U+114D2", "U+114D3", "U+114D4", "U+114D5", "U+114D6", "U+114D7",
     "U+114D8", "U+114D9", "U+11650", "U+11651", "U+11652", "U+11653", "U+11654",
     "U+11655", "U+11656", "U+11657", "U+11658", "U+11659", "U+116C0", "U+116C1",
     "U+116C2", "U+116C3", "U+116C4", "U+116C5", "U+116C6", "U+116C7", "U+116C8",
     "U+116C9", "U+11730", "U+11731", "U+11732", "U+11733", "U+11734", "U+11735",
     "U+11736", "U+11737", "U+11738", "U+11739", "U+118E0", "U+118E1", "U+118E2",
     "U+118E3", "U+118E4", "U+118E5", "U+118E6", "U+118E7", "U+118E8", "U+118E9",
     "U+11950", "U+11951", "U+11952", "U+11953", "U+11954", "U+11955", "U+11956",
     "U+11957", "U+11958", "U+11959", "U+11C50", "U+11C51", "U+11C52", "U+11C53",
     "U+11C54", "U+11C55", "U+11C56", "U+11C57", "U+11C58", "U+11C59", "U+11D50",
     "U+11D51", "U+11D52", "U+11D53", "U+11D54", "U+11D55", "U+11D56", "U+11D57",
     "U+11D58", "U+11D59", "U+11DA0", "U+11DA1", "U+11DA2", "U+11DA3", "U+11DA4",
     "U+11DA5", "U+11DA6", "U+11DA7", "U+11DA8", "U+11DA9", "U+16A60", "U+16A61",
     "U+16A62", "U+16A63", "U+16A64", "U+16A65", "U+16A66", "U+16A67", "U+16A68",
     "U+16A69", "U+16AC0", "U+16AC1", "U+16AC2", "U+16AC3", "U+16AC4", "U+16AC5",
     "U+16AC6", "U+16AC7", "U+16AC8", "U+16AC9", "U+16B50", "U+16B51", "U+16B52",
     "U+16B53", "U+16B54", "U+16B55", "U+16B56", "U+16B57", "U+16B58", "U+16B59",
     "U+1D7CE", "U+1D7CF", "U+1D7D0", "U+1D7D1", "U+1D7D2", "U+1D7D3", "U+1D7D4",
     "U+1D7D5", "U+1D7D6", "U+1D7D7", "U+1D7D8", "U+1D7D9", "U+1D7DA", "U+1D7DB",
     "U+1D7DC", "U+1D7DD", "U+1D7DE", "U+1D7DF", "U+1D7E0", "U+1D7E1", "U+1D7E2",
     "U+1D7E3", "U+1D7E4", "U+1D7E5", "U+1D7E6", "U+1D7E7", "U+1D7E8", "U+1D7E9",
     "U+1D7EA", "U+1D7EB", "U+1D7EC", "U+1D7ED", "U+1D7EE", "U+1D7EF", "U+1D7F0",
     "U+1D7F1", "U+1D7F2", "U+1D7F3", "U+1D7F4", "U+1D7F5", "U+1D7F6", "U+1D7F7",
     "U+1D7F8", "U+1D7F9", "U+1D7FA", "U+1D7FB", "U+1D7FC", "U+1D7FD", "U+1D7FE",
     "U+1D7FF", "U+1E140", "U+1E141", "U+1E142", "U+1E143", "U+1E144", "U+1E145",
     "U+1E146", "U+1E147", "U+1E148", "U+1E149", "U+1E2F0", "U+1E2F1", "U+1E2F2",
     "U+1E2F3", "U+1E2F4", "U+1E2F5", "U+1E2F6", "U+1E2F7", "U+1E2F8", "U+1E2F9",
     "U+1E950", "U+1E951", "U+1E952", "U+1E953", "U+1E954", "U+1E955", "U+1E956",
     "U+1E957", "U+1E958", "U+1E959", "U+1FBF0", "U+1FBF1", "U+1FBF2", "U+1FBF3",
     "U+1FBF4", "U+1FBF5", "U+1FBF6", "U+1FBF7", "U+1FBF8", "U+1FBF9"}
\* \s of the list pattern: every character str.isspace() holds for
Spaces ==
    {"\t", NL, "U+B", "\f", "\r", "U+1C", "U+1D", "U+1E", "U+1F", " ", "U+85", "U+A0",
     "U+1680", "U+2000", "U+2001", "U+2002", "U+2003", "U+2004", "U+2005", "U+2006",
     "U+2007", "U+2008", "U+2009", "U+200A", "U+2028", "U+2029", "U+202F", "U+205F",
     "U+3000"}
\* [.、)）] of the list pattern
ListDelims == {".", "U+3001", ")", "U+FF09"}
StopMarks == {"U+3002", "."}
SemiMarks == {"U+FF1B", "U+2026"}
ExclMarks == {"U+FF01", "U+FF1F", "!", "?"}
CommaMarks == {"U+FF0C", "U+3001", "U+FF1A"}

Rep(c, n) == [i \in 1..n |-> c]

Min(S) == CHOOSE x \in S : \A y \in S : x <= y

(***************************************************************************)
(* Boundary Detector.                                                      *)
(*                                                                         *)
(* A tier may fire once the text accumulated for the open bubble is as     *)
(* long as the floor of the tier; the boundary is then the earliest match  *)
(* of the highest tier that fires.  The floor is a floor on the            *)
(* accumulated length, not on the offset of the match: "1. aa\n2. bb"      *)
(* (11 characters) is cut at the newline at offset 5.                      *)
(***************************************************************************)
\* first index >= i of text that holds no character of S (Len(text)+1 if none)
RECURSIVE SkipWhile(_, _, _)
SkipWhile(text, i, S) ==
    IF i > Len(text) \/ text[i] \notin S THEN i ELSE SkipWhile(text, i + 1, S)

\* _LIST_PATTERN = \n(?=\s*\d+[.、)）]\s*) matches at index i (1-based)
LIST_PATTERN(text, i) ==
    /\ text[i] = NL
    /\ LET d == SkipWhile(text, i + 1, Spaces)
           e == SkipWhile(text, d, Digits)
       IN  /\ e > d
           /\ e <= Len(text)
           /\ text[e] \in ListDelims

\* the 0-based offset of the earliest index of S, -1 when S is empty
FirstOffset(S) == IF S = {} THEN -1 ELSE Min(S) - 1

ListBreak(text) ==
    FirstOffset({i \in 1..Len(text) : LIST_PATTERN(text, i)})

\* a paragraph break is cut after its second newline
ParagraphBreak(text) ==
    FirstOffset({i \in 2..Len(text) : text[i - 1] = NL /\ text[i] = NL})

MarkBreak_last(text, marks) ==
    LET S == {i \in 1..Len(text) : text[i] \in marks}
    IN  IF S = {} THEN -1 ELSE (CHOOSE i \in S : \A k \in S : k <= i) - 1
MarkBreak(text, marks) ==
    FirstOffset({i \in 1..Len(text) : text[i] \in marks})

\* the tiers, top-down: the accumulated length each needs before it may fire
TierFloor_list_as_stop(t, min_length) ==
    <<STOP_MIN, min_length, STOP_MIN, SEMI_MIN, EXCL_MIN, NEWLINE_MIN, COMMA_MIN>>[t]
TierFloor(t, min_length) ==
    <<min_length, min_length, STOP_MIN, SEMI_MIN, EXCL_MIN, NEWLINE_MIN, COMMA_MIN>>[t]

\* the earliest match of tier t in a forward scan of text, -1 when it has none
TierMatch(text, t) ==
    CASE t = 1 -> ListBreak(text)
      [] t = 2 -> ParagraphBreak(text)
      [] t = 3 -> MarkBreak(text, StopMarks)
      [] t = 4 -> MarkBreak(text, SemiMarks)
      [] t = 5 -> MarkBreak(text, ExclMarks)
      [] t = 6 -> MarkBreak(text, {NL})
      [] t = 7 -> MarkBreak(text, CommaMarks)

\* a tier fires once the accumulated length has reached its floor
TierFires(text, min_length, t) ==
    /\ Len(text) >= min_length
    /\ Len(text) >= TierFloor(t, min_length)
    /\ TierMatch(text, t) >= 0

find_sentence_boundary(text, min_length) ==
    LET firing == {t \in 1..7 : TierFires(text, min_length, t)}
    IN  IF firing = {} THEN -1 ELSE TierMatch(text, Min(firing))

(***************************************************************************)
(* Inputs: the texts a producer streams, and the turns that run together.  *)
(***************************************************************************)
Groups == {"g1", "g2"}

\* the lengths of the chunks a producer yields
ChunkSizes == (1..MaxChunk) \cup {LongChunk}

\* n ordinary characters followed by a paragraph break
Para(n) == Rep("a", n) \o <<NL, NL>>

\* six paragraphs: more boundaries than max_bubbles - 1
TextParagraphs == Para(6) \o Para(6) \o Para(6) \o Para(6) \o Para(6) \o <<"a", "a">>
\* a full stop at offset 19 and one at the very end
TextStop == Rep("a", 19) \o <<"U+3002">> \o Rep("a", 3) \o <<".">>
\* a full stop at offset 4, long before the floor of its tier is reached
TextEarlyStop == Rep("a", 4) \o <<"U+3002">> \o Rep("a", 18)
\* "1. aa\n2. bb": a numbered list
TextList == <<"1", ".", " ", "a", "a", NL, "2", ".", " ", "b", "b">>
\* one paragraph break
TextShort == Para(6) \o <<"b", "b">>
\* shorter than min_len
TextTiny == <<"a", "!", "a">>
\* two full stops at offsets 4 and 9, then a paragraph break at offsets 20, 21
TextMixed ==
    Rep("a", 4) \o <<"U+3002">> \o Rep("a", 4) \o <<"U+3002">> \o Rep("a", 10)
        \o <<NL, NL, "a", "a">>
\* three exclamatory sentences, 78 characters in all
TextExclaim ==
    Rep("a", 25) \o <<"U+FF01">> \o Rep("a", 25) \o <<"U+FF01">>
        \o Rep("a", 25) \o <<"U+FF01">>

Texts ==
    {TextParagraphs, TextStop, TextEarlyStop, TextList, TextShort, TextTiny,
     TextMixed, TextExclaim, <<>>}

\* a scenario: the turns that exist and the text of each producer
Scenarios ==
    {<<{"g1"}, [g \in Groups |-> IF g = "g1" THEN t ELSE <<>>]>> : t \in Texts}
    \cup {<<Groups, [g \in Groups |-> IF g = "g1" THEN TextShort ELSE t]>> :
             t \in {TextShort, TextTiny}}

\* the scenarios whose behaviours are checked for liveness
LiveScenarios ==
    {sc \in Scenarios : sc[2]["g1"] /= TextParagraphs /\ sc[2]["g2"] /= TextShort}

(***************************************************************************)
(* State.                                                                  *)
(***************************************************************************)
VARIABLES
    turns,             \* the groups for which an orchestrator exists
    text,              \* text[g]: everything the producer of g will yield
    pos,               \* pos[g]: characters of text[g] consumed so far
    state,             \* state[g]: orchestrator state
    sentence_id,       \* sentence_id[g]: id of the open bubble, -1 before the first
    current_sentence,  \* current_sentence[g]: text accumulated for the open bubble
    events,            \* events[g]: the event stream of g, oldest first
    bubbles,           \* bubbles[g][sid + 1]: the token payloads of bubble sid, concatenated
    tts_tasks,         \* tts_tasks[g][sid + 1]: the synthesis job of bubble sid
    tts_queue,         \* jobs waiting for the semaphore, in submission order
    tts_running,       \* jobs holding the semaphore (in the backend call)
    tts_semaphore,     \* free permits of the semaphore
    unyielded,         \* unyielded[g]: the events the generator has still to yield
                       \* for the chunk it has taken, in order
    yielded            \* yielded[g]: the jobs of g whose event the generator has yielded

\* the download page (App.vue) and its calls of downloadUserVideosStream
VARIABLES
    status,            \* 'idle', 'loading', 'success' or 'error'
    streamPhase,       \* '', 'starting', 'extracting', 'downloading', 'done' or 'error'
    streamEvents,      \* the events shown, oldest first
    streamTotal,
    streamSucceeded,
    streamFailed,
    streamRemaining,
    streamAbort,       \* the call whose controller streamAbort holds, NoCall for null
    phase,             \* phase[i]: where the i-th submission stands
    response,          \* response[i]: the response the i-th submission is reading
    rpos,              \* rpos[i]: bytes of the body the reader has handed out
    decoder,           \* decoder[i]: the bytes the TextDecoder holds back
    buffer,            \* buffer[i]: the text behind the last blank line
    aborted,           \* aborted[i]: controller.signal.aborted
    delivered          \* delivered[i]: the events the reading call passed to onEvent

engine == <<turns, text, pos, state, sentence_id, current_sentence, events, bubbles,
            tts_tasks, tts_queue, tts_running, tts_semaphore, unyielded, yielded>>

page == <<status, streamPhase, streamEvents, streamTotal, streamSucceeded,
          streamFailed, streamRemaining, streamAbort>>

client == <<page, phase, response, rpos, decoder, buffer, aborted, delivered>>

vars == <<engine, client>>

\* the submissions of the page, in order
Calls == {1, 2}
NoCall == 0
NoResponse == [body |-> "empty", fails |-> FALSE]

\* The values of JavaScript.  A string is the sequence of its characters.
Undefined == [kind |-> "undefined"]
Null == [kind |-> "null"]
BooleanValue(b) == [kind |-> "boolean", bool |-> b]
StringValue(cs) == [kind |-> "string", chars |-> cs]
\* a finite number: sign * digits * 10^exp, the digits those of the shortest
\* decimal that names the number, without leading or trailing zeros (none for 0)
NumberValue(sign, digits, exp) ==
    [kind |-> "number", sign |-> sign, digits |-> digits, exp |-> exp]
Infinity(sign) == [kind |-> "number", sign |-> sign, infinite |-> TRUE]
NaN == [kind |-> "number", nan |-> TRUE]
Zero == NumberValue(1, <<>>, 0)
ArrayValue(items) == [kind |-> "array", items |-> items]
\* an object: its own properties, in the order of enumeration
ObjectValue(keys, values) == [kind |-> "object", keys |-> keys, values |-> values]

\* the page as it is mounted, before any submission
ClientIdle ==
    /\ status = "idle"
    /\ streamPhase = ""
    /\ streamEvents = <<>>
    /\ streamTotal = Zero
    /\ streamSucceeded = Zero
    /\ streamFailed = Zero
    /\ streamRemaining = Zero
    /\ streamAbort = NoCall
    /\ phase = [i \in Calls |-> "none"]
    /\ response = [i \in Calls |-> NoResponse]
    /\ rpos = [i \in Calls |-> 0]
    /\ decoder = [i \in Calls |-> <<>>]
    /\ buffer = [i \in Calls |-> <<>>]
    /\ aborted = [i \in Calls |-> FALSE]
    /\ delivered = [i \in Calls |-> <<>>]

NoSentence == -1

MessageStart(sid) == [type |-> "message_start", sid |-> sid]
Token(sid, t) == [type |-> "token", sid |-> sid, text |-> t]
SentenceEnd(sid) == [type |-> "sentence_end", sid |-> sid]
Audio(sid) == [type |-> "audio", sid |-> sid]
\* sid = NoSentence: a turn-level error
Error(sid, message) == [type |-> "error", sid |-> sid, message |-> message]
Done(succeeded, failed) ==
    [type |-> "done", sid |-> NoSentence,
     succeededCount |-> succeeded, failedCount |-> failed]

\* The stream with one more event.  The stream keeps the order of the events;
\* a run of adjacent token events of one bubble is kept as one entry, and the
\* payloads go to Deliver.
Emit(log, ev) ==
    IF ev.type = "token"
    THEN IF log /= <<>> /\ log[Len(log)] = [type |-> "token", sid |-> ev.sid]
         THEN log
         ELSE Append(log, [type |-> "token", sid |-> ev.sid])
    ELSE Append(log, ev)

RECURSIVE EmitAll(_, _)
EmitAll(log, evs) ==
    IF evs = <<>> THEN log ELSE EmitAll(Emit(log, Head(evs)), Tail(evs))

\* The bubbles as the token events build them: the payload of a token event is
\* appended to the text of the bubble it is tagged with.
Deliver(bt, ev) ==
    IF ev.type /= "token" THEN bt
    ELSE IF ev.sid + 1 <= Len(bt) THEN [bt EXCEPT ![ev.sid + 1] = @ \o ev.text]
    ELSE Append(bt, ev.text)

RECURSIVE DeliverAll(_, _)
DeliverAll(bt, evs) ==
    IF evs = <<>> THEN bt ELSE DeliverAll(Deliver(bt, Head(evs)), Tail(evs))

InitOf(scenarios) ==
    /\ \E sc \in scenarios : turns = sc[1] /\ text = sc[2]
    /\ pos = [g \in Groups |-> 0]
    /\ state = [g \in Groups |-> "AWAITING_FIRST_TOKEN"]
    /\ sentence_id = [g \in Groups |-> NoSentence]
    /\ current_sentence = [g \in Groups |-> <<>>]
    /\ events = [g \in Groups |-> <<>>]
    /\ bubbles = [g \in Groups |-> <<>>]
    /\ tts_tasks = [g \in Groups |-> <<>>]
    /\ tts_queue = <<>>
    /\ tts_running = {}
    /\ tts_semaphore = TTS_CONCURRENCY
    /\ unyielded = [g \in Groups |-> <<>>]
    /\ yielded = [g \in Groups |-> 0]
    /\ ClientIdle

Init == InitOf(Scenarios)

(***************************************************************************)
(* Stream Orchestrator.                                                    *)
(***************************************************************************)
split_pos(boundary, old_len) == boundary + 1 - old_len
\* The index a Python slice of a sequence of n items starts or stops at: an
\* index below 0 counts from the end, and an index beyond either end is the end.
SliceIndex(i, n) ==
    IF i < 0 THEN (IF n + i < 0 THEN 0 ELSE n + i)
    ELSE IF i > n THEN n ELSE i

\* token[:split_pos]
token_before_without_mark(token, sp) ==
    SubSeq(token, 1, SliceIndex(sp, Len(token)) - 1)
token_before(token, sp) == SubSeq(token, 1, SliceIndex(sp, Len(token)))
\* token[split_pos:]
token_after(token, sp) == SubSeq(token, SliceIndex(sp, Len(token)) + 1, Len(token))

\* the allocator: the identity after sid
next_sentence_id_skips(sid) == sid + 2
next_sentence_id_global(sid) ==
    1 + (CHOOSE m \in {sentence_id[h] : h \in Groups} :
             \A h \in Groups : sentence_id[h] <= m)
next_sentence_id(sid) == sid + 1

\* the allocator: the open bubble sid is the last one max_bubbles allows
AtCap_one_late(sid) == sid + 1 > max_bubbles
AtCap_one_early(sid) == sid + 2 >= max_bubbles
AtCap(sid) == sid + 1 >= max_bubbles

\* the events of a split, in the order they are yielded
SplitEvents_end_first(sid, before, after) ==
    <<SentenceEnd(sid), Token(sid, before),
      MessageStart(next_sentence_id(sid)), Token(next_sentence_id(sid), after)>>
SplitEvents_start_first(sid, before, after) ==
    <<Token(sid, before), MessageStart(next_sentence_id(sid)),
      SentenceEnd(sid), Token(next_sentence_id(sid), after)>>
SplitEvents(sid, before, after) ==
    <<Token(sid, before), SentenceEnd(sid),
      MessageStart(next_sentence_id(sid)), Token(next_sentence_id(sid), after)>>

\* boundary detection stops once the cap is reached
Boundary(buf, sid) ==
    IF AtCap(sid) THEN -1 ELSE find_sentence_boundary(buf, min_len)

\* the job of a finalized bubble: it waits for the semaphore; elapsed is the
\* part of its timeout window that has passed
Job(sentence) == [text |-> sentence, status |-> "queued", elapsed |-> 0]

\* the sentence a boundary closes, and what is left of the buffer behind it
SentenceOf(buf, boundary) == SubSeq(buf, 1, boundary + 1)
RestOf(buf, boundary) == SubSeq(buf, boundary + 2, Len(buf))

\* The generator of g yields the first of the events out and is left with the
\* others: each yield hands one event to the response and suspends the
\* generator until the response asks for the next one.
YieldFirst(g, out) ==
    /\ events' = [events EXCEPT ![g] = Emit(@, Head(out))]
    /\ bubbles' = [bubbles EXCEPT ![g] = Deliver(@, Head(out))]
    /\ unyielded' = [unyielded EXCEPT ![g] = Tail(out)]

\* One chunk of n characters arrives from the producer of g.  The chunk is
\* appended to the buffer and the detector is asked; without a boundary the
\* chunk is yielded as one token, with a boundary it is cut at split_pos
\* whatever split_pos is, and the four events of the split are yielded one
\* after the other.  The generator runs up to its first yield.
OnToken_awaits_jobs(g, n) ==
    /\ g \in turns
    /\ state[g] \in {"AWAITING_FIRST_TOKEN", "STREAMING"}
    /\ unyielded[g] = <<>>
    /\ pos[g] + n <= Len(text[g])
    /\ \A i \in 1..Len(tts_tasks[g]) : tts_tasks[g][i].status \in {"ok", "error", "timeout"}
    /\ LET token == SubSeq(text[g], pos[g] + 1, pos[g] + n)
           first == state[g] = "AWAITING_FIRST_TOKEN"
           sid == IF first THEN 0 ELSE sentence_id[g]
           opened == IF first THEN <<MessageStart(0)>> ELSE <<>>
           old_len == Len(current_sentence[g])
           buf == current_sentence[g] \o token
           boundary == Boundary(buf, sid)
           sp == split_pos(boundary, old_len)
       IN  IF boundary >= 0
           THEN /\ YieldFirst(g, opened \o SplitEvents(sid, token_before(token, sp),
                                                       token_after(token, sp)))
                /\ tts_tasks' = [tts_tasks EXCEPT ![g] =
                       Append(@, Job(SentenceOf(buf, boundary)))]
                /\ tts_queue' = Append(tts_queue, <<g, sid>>)
                /\ current_sentence' = [current_sentence EXCEPT ![g] =
                       RestOf(buf, boundary)]
                /\ sentence_id' = [sentence_id EXCEPT ![g] = next_sentence_id(sid)]
           ELSE /\ YieldFirst(g, opened \o <<Token(sid, token)>>)
                /\ current_sentence' = [current_sentence EXCEPT ![g] = buf]
                /\ sentence_id' = [sentence_id EXCEPT ![g] = sid]
                /\ UNCHANGED <<tts_tasks, tts_queue>>
    /\ pos' = [pos EXCEPT ![g] = @ + n]
    /\ state' = [state EXCEPT ![g] = "STREAMING"]
    /\ UNCHANGED <<turns, text, tts_running, tts_semaphore, yielded>>
OnToken_resplits(g, n) ==
    /\ g \in turns
    /\ state[g] \in {"AWAITING_FIRST_TOKEN", "STREAMING"}
    /\ unyielded[g] = <<>>
    /\ pos[g] + n <= Len(text[g])
    /\ LET token == SubSeq(text[g], pos[g] + 1, pos[g] + n)
           first == state[g] = "AWAITING_FIRST_TOKEN"
           sid == IF first THEN 0 ELSE sentence_id[g]
           opened == IF first THEN <<MessageStart(0)>> ELSE <<>>
           old_len == Len(current_sentence[g])
           buf == current_sentence[g] \o token
           boundary == Boundary(buf, sid)
           sp == split_pos(boundary, old_len)
           rest == RestOf(buf, boundary)
           again == Boundary(rest, next_sentence_id(sid))
       IN  IF boundary >= 0
           THEN IF again >= 0
                THEN /\ YieldFirst(g, opened \o
                            SplitEvents(sid, token_before(token, sp),
                                        SentenceOf(rest, again)) \o
                            <<SentenceEnd(next_sentence_id(sid)),
                              MessageStart(next_sentence_id(next_sentence_id(sid))),
                              Token(next_sentence_id(next_sentence_id(sid)),
                                    RestOf(rest, again))>>)
                     /\ tts_tasks' = [tts_tasks EXCEPT ![g] =
                            @ \o <<Job(SentenceOf(buf, boundary)),
                                   Job(SentenceOf(rest, again))>>]
                     /\ tts_queue' = tts_queue \o <<<<g, sid>>, <<g, next_sentence_id(sid)>> >>
                     /\ current_sentence' = [current_sentence EXCEPT ![g] =
                            RestOf(rest, again)]
                     /\ sentence_id' = [sentence_id EXCEPT ![g] =
                            next_sentence_id(next_sentence_id(sid))]
                ELSE /\ YieldFirst(g, opened \o
                            SplitEvents(sid, token_before(token, sp),
                                        token_after(token, sp)))
                     /\ tts_tasks' = [tts_tasks EXCEPT ![g] =
                            Append(@, Job(SentenceOf(buf, boundary)))]
                     /\ tts_queue' = Append(tts_queue, <<g, sid>>)
                     /\ current_sentence' = [current_sentence EXCEPT ![g] = rest]
                     /\ sentence_id' = [sentence_id EXCEPT ![g] = next_sentence_id(sid)]
           ELSE /\ YieldFirst(g, opened \o <<Token(sid, token)>>)
                /\ current_sentence' = [current_sentence EXCEPT ![g] = buf]
                /\ sentence_id' = [sentence_id EXCEPT ![g] = sid]
                /\ UNCHANGED <<tts_tasks, tts_queue>>
    /\ pos' = [pos EXCEPT ![g] = @ + n]
    /\ state' = [state EXCEPT ![g] = "STREAMING"]
    /\ UNCHANGED <<turns, text, tts_running, tts_semaphore, yielded>>
OnToken(g, n) ==
    /\ g \in turns
    /\ state[g] \in {"AWAITING_FIRST_TOKEN", "STREAMING"}
    /\ unyielded[g] = <<>>
    /\ pos[g] + n <= Len(text[g])
    /\ LET token == SubSeq(text[g], pos[g] + 1, pos[g] + n)
           first == state[g] = "AWAITING_FIRST_TOKEN"
           sid == IF first THEN 0 ELSE sentence_id[g]
           opened == IF first THEN <<MessageStart(0)>> ELSE <<>>
           old_len == Len(current_sentence[g])
           buf == current_sentence[g] \o token
           boundary == Boundary(buf, sid)
           sp == split_pos(boundary, old_len)
       IN  IF boundary >= 0
           THEN /\ YieldFirst(g, opened \o SplitEvents(sid, token_before(token, sp),
                                                       token_after(token, sp)))
                /\ tts_tasks' = [tts_tasks EXCEPT ![g] =
                       Append(@, Job(SentenceOf(buf, boundary)))]
                /\ tts_queue' = Append(tts_queue, <<g, sid>>)
                /\ current_sentence' = [current_sentence EXCEPT ![g] =
                       RestOf(buf, boundary)]
                /\ sentence_id' = [sentence_id EXCEPT ![g] = next_sentence_id(sid)]
           ELSE /\ YieldFirst(g, opened \o <<Token(sid, token)>>)
                /\ current_sentence' = [current_sentence EXCEPT ![g] = buf]
                /\ sentence_id' = [sentence_id EXCEPT ![g] = sid]
                /\ UNCHANGED <<tts_tasks, tts_queue>>
    /\ pos' = [pos EXCEPT ![g] = @ + n]
    /\ state' = [state EXCEPT ![g] = "STREAMING"]
    /\ UNCHANGED <<turns, text, tts_running, tts_semaphore, yielded>>

\* The response asks the generator of g for its next event: the generator
\* resumes behind the yield it was suspended at and runs up to the next one.
Yield(g) ==
    /\ g \in turns
    /\ state[g] = "STREAMING"
    /\ unyielded[g] /= <<>>
    /\ YieldFirst(g, unyielded[g])
    /\ UNCHANGED <<turns, text, pos, state, sentence_id, current_sentence,
                   tts_tasks, tts_queue, tts_running, tts_semaphore, yielded>>

\* The producer of g signals its end: the open bubble is finalized whatever
\* its length and submitted.
OnProducerEnd_skips_short(g) ==
    /\ g \in turns
    /\ state[g] \in {"AWAITING_FIRST_TOKEN", "STREAMING"}
    /\ unyielded[g] = <<>>
    /\ pos[g] = Len(text[g])
    /\ IF state[g] = "STREAMING" /\ Len(current_sentence[g]) >= min_len
       THEN /\ events' = [events EXCEPT ![g] = Emit(@, SentenceEnd(sentence_id[g]))]
            /\ tts_tasks' = [tts_tasks EXCEPT ![g] = Append(@, Job(current_sentence[g]))]
            /\ tts_queue' = Append(tts_queue, <<g, sentence_id[g]>>)
       ELSE UNCHANGED <<events, tts_tasks, tts_queue>>
    /\ state' = [state EXCEPT ![g] = "FINALIZING"]
    /\ UNCHANGED <<turns, text, pos, sentence_id, current_sentence, bubbles,
                   tts_running, tts_semaphore, unyielded, yielded>>
OnProducerEnd(g) ==
    /\ g \in turns
    /\ state[g] \in {"AWAITING_FIRST_TOKEN", "STREAMING"}
    /\ unyielded[g] = <<>>
    /\ pos[g] = Len(text[g])
    /\ IF state[g] = "STREAMING"
       THEN /\ events' = [events EXCEPT ![g] = Emit(@, SentenceEnd(sentence_id[g]))]
            /\ tts_tasks' = [tts_tasks EXCEPT ![g] = Append(@, Job(current_sentence[g]))]
            /\ tts_queue' = Append(tts_queue, <<g, sentence_id[g]>>)
       ELSE UNCHANGED <<events, tts_tasks, tts_queue>>
    /\ state' = [state EXCEPT ![g] = "FINALIZING"]
    /\ UNCHANGED <<turns, text, pos, sentence_id, current_sentence, bubbles,
                   tts_running, tts_semaphore, unyielded, yielded>>

\* The producer of g fails while the generator waits for its next chunk: a
\* turn-level error, nothing is finalized.
OnProducerError_then_finalizing(g) ==
    /\ g \in turns
    /\ state[g] \in {"AWAITING_FIRST_TOKEN", "STREAMING"}
    /\ unyielded[g] = <<>>
    /\ events' = [events EXCEPT ![g] = Emit(@, Error(NoSentence, "producer"))]
    /\ state' = [state EXCEPT ![g] = "FINALIZING"]
    /\ UNCHANGED <<turns, text, pos, sentence_id, current_sentence, bubbles,
                   tts_tasks, tts_queue, tts_running, tts_semaphore, unyielded, yielded>>
OnProducerError(g) ==
    /\ g \in turns
    /\ state[g] \in {"AWAITING_FIRST_TOKEN", "STREAMING"}
    /\ unyielded[g] = <<>>
    /\ events' = [events EXCEPT ![g] = Emit(@, Error(NoSentence, "producer"))]
    /\ state' = [state EXCEPT ![g] = "FAILED"]
    /\ UNCHANGED <<turns, text, pos, sentence_id, current_sentence, bubbles,
                   tts_tasks, tts_queue, tts_running, tts_semaphore, unyielded, yielded>>

\* The turn of g is canceled, wherever its generator is suspended: no further
\* chunk is consumed, the events the generator had still to yield stay
\* unyielded, and the stream is closed by a cancellation marker.
OnCancel_no_marker(g) ==
    /\ g \in turns
    /\ state[g] \in {"AWAITING_FIRST_TOKEN", "STREAMING", "FINALIZING"}
    /\ state' = [state EXCEPT ![g] = "CANCELED"]
    /\ UNCHANGED <<turns, text, pos, sentence_id, current_sentence, events, bubbles,
                   tts_tasks, tts_queue, tts_running, tts_semaphore, unyielded, yielded>>
OnCancel(g) ==
    /\ g \in turns
    /\ state[g] \in {"AWAITING_FIRST_TOKEN", "STREAMING", "FINALIZING"}
    /\ events' = [events EXCEPT ![g] = Emit(@, Error(NoSentence, "canceled"))]
    /\ state' = [state EXCEPT ![g] = "CANCELED"]
    /\ UNCHANGED <<turns, text, pos, sentence_id, current_sentence, bubbles,
                   tts_tasks, tts_queue, tts_running, tts_semaphore, unyielded, yielded>>

\* the outcomes of a backend call that are failures
Failures == {"error", "timeout"}

\* the job has left the backend call
Resolved(job) == job.status \in {"ok"} \cup Failures

CountStatus(tasks, S) == Cardinality({i \in 1..Len(tasks) : tasks[i].status \in S})

\* the error event of a job that failed, tagged with its bubble
SynthesisError(sid, outcome) == Error(sid, outcome)

\* A task that ended without audio: the generator writes the log line "No
\* audio for sentence N (result=None/empty)".  The log shows no event for the
\* sentence; an error event tagged with the bubble may be yielded as well.
\* Both are outcomes: no event, or the error event.
NoAudio(sid, outcome) == {<<>>, <<SynthesisError(sid, outcome)>>}

\* what the generator yields for a resolved job: the events of each outcome
ResultEvent_next_bubble(sid, outcome) ==
    IF outcome = "ok" THEN {<<Audio(sid + 1)>>} ELSE NoAudio(sid + 1, outcome)
ResultEvent(sid, outcome) ==
    IF outcome = "ok" THEN {<<Audio(sid)>>} ELSE NoAudio(sid, outcome)

\* The generator of g, its producer over, awaits the tasks of its sentences in
\* the order of the sentences and, once the task of a sentence has ended,
\* yields its audio event or goes on from a task without audio.
YieldResult(g) ==
    /\ g \in turns
    /\ state[g] \in {"FINALIZING", "FAILED"}
    /\ yielded[g] < Len(tts_tasks[g])
    /\ Resolved(tts_tasks[g][yielded[g] + 1])
    /\ \E out \in ResultEvent(yielded[g], tts_tasks[g][yielded[g] + 1].status) :
           events' = [events EXCEPT ![g] = EmitAll(@, out)]
    /\ yielded' = [yielded EXCEPT ![g] = @ + 1]
    /\ UNCHANGED <<turns, text, pos, state, sentence_id, current_sentence, bubbles,
                   tts_tasks, tts_queue, tts_running, tts_semaphore, unyielded>>

\* Every task of g has been awaited: the turn is done.
OnAllResolved_after_cancel(g) ==
    /\ g \in turns
    /\ state[g] \in {"FINALIZING", "CANCELED"}
    /\ \A i \in 1..Len(tts_tasks[g]) : Resolved(tts_tasks[g][i])
    /\ events' = [events EXCEPT ![g] =
           Emit(@, Done(CountStatus(tts_tasks[g], {"ok"}),
                        CountStatus(tts_tasks[g], Failures)))]
    /\ state' = [state EXCEPT ![g] = "DONE"]
    /\ UNCHANGED <<turns, text, pos, sentence_id, current_sentence, bubbles,
                   tts_tasks, tts_queue, tts_running, tts_semaphore, unyielded, yielded>>
OnAllResolved(g) ==
    /\ g \in turns
    /\ state[g] = "FINALIZING"
    /\ yielded[g] = Len(tts_tasks[g])
    /\ events' = [events EXCEPT ![g] =
           Emit(@, Done(CountStatus(tts_tasks[g], {"ok"}),
                        CountStatus(tts_tasks[g], Failures)))]
    /\ state' = [state EXCEPT ![g] = "DONE"]
    /\ UNCHANGED <<turns, text, pos, sentence_id, current_sentence, bubbles,
                   tts_tasks, tts_queue, tts_running, tts_semaphore, unyielded, yielded>>

(***************************************************************************)
(* Synthesis Gate.                                                         *)
(***************************************************************************)
\* the semaphore has a free permit
CanAdmit(permits) == permits > 0

\* the permits after the job leaving the backend call has released its own
Release_leaks(permits) == permits
Release(permits) == permits + 1

\* The job at the head of the queue acquires the semaphore and calls the backend.
Admit_newest_first ==
    /\ tts_queue /= <<>>
    /\ CanAdmit(tts_semaphore)
    /\ LET j == tts_queue[Len(tts_queue)]
       IN  /\ tts_running' = tts_running \cup {j}
           /\ tts_tasks' = [tts_tasks EXCEPT ![j[1]][j[2] + 1].status = "running"]
    /\ tts_queue' = SubSeq(tts_queue, 1, Len(tts_queue) - 1)
    /\ tts_semaphore' = tts_semaphore - 1
    /\ UNCHANGED <<turns, text, pos, state, sentence_id, current_sentence, events,
                   bubbles, unyielded, yielded>>
Admit ==
    /\ tts_queue /= <<>>
    /\ CanAdmit(tts_semaphore)
    /\ LET j == Head(tts_queue)
       IN  /\ tts_running' = tts_running \cup {j}
           /\ tts_tasks' = [tts_tasks EXCEPT ![j[1]][j[2] + 1].status = "running"]
    /\ tts_queue' = Tail(tts_queue)
    /\ tts_semaphore' = tts_semaphore - 1
    /\ UNCHANGED <<turns, text, pos, state, sentence_id, current_sentence, events,
                   bubbles, unyielded, yielded>>

\* the jobs whose timeout window is running: the window of a request opens
\* when the request has acquired the semaphore
Timed_from_submission(j) ==
    j \in tts_running \/ \E i \in 1..Len(tts_queue) : tts_queue[i] = j
Timed(j) == j \in tts_running

\* The clock ticks: the timeout window of every timed job that has not used
\* up its window shrinks by one tick.
Tick ==
    /\ \E g \in Groups : \E i \in 1..Len(tts_tasks[g]) :
           Timed(<<g, i - 1>>) /\ tts_tasks[g][i].elapsed < TimeoutTicks
    /\ tts_tasks' = [g \in Groups |-> [i \in 1..Len(tts_tasks[g]) |->
           IF Timed(<<g, i - 1>>) /\ tts_tasks[g][i].elapsed < TimeoutTicks
           THEN [tts_tasks[g][i] EXCEPT !.elapsed = @ + 1]
           ELSE tts_tasks[g][i]]]
    /\ UNCHANGED <<turns, text, pos, state, sentence_id, current_sentence, events,
                   bubbles, tts_queue, tts_running, tts_semaphore, unyielded, yielded>>

Outcomes == {"ok", "error", "timeout"}

\* the call of a job runs into its timeout when its window has passed, and
\* returns or fails before
CanResolve(job, outcome) ==
    IF outcome = "timeout" THEN job.elapsed = TimeoutTicks
    ELSE job.elapsed < TimeoutTicks

\* The backend call of an admitted job returns, fails or times out: the task
\* of the job ends with the outcome, the timer of the call is dropped and the
\* permit is released.  The event of the job is the generator's to yield.
Resolve_retries(j, outcome) ==
    /\ j \in tts_running
    /\ CanResolve(tts_tasks[j[1]][j[2] + 1], outcome)
    /\ tts_running' = tts_running \ {j}
    /\ IF outcome \in Failures
       THEN /\ tts_tasks' = [tts_tasks EXCEPT ![j[1]][j[2] + 1] =
                   [@ EXCEPT !.status = "queued", !.elapsed = 0]]
            /\ tts_queue' = Append(tts_queue, j)
       ELSE /\ tts_tasks' = [tts_tasks EXCEPT ![j[1]][j[2] + 1] =
                   [@ EXCEPT !.status = outcome, !.elapsed = 0]]
            /\ UNCHANGED tts_queue
    /\ tts_semaphore' = Release(tts_semaphore)
    /\ UNCHANGED <<turns, text, pos, state, sentence_id, current_sentence, events,
                   bubbles, unyielded, yielded>>
Resolve(j, outcome) ==
    /\ j \in tts_running
    /\ CanResolve(tts_tasks[j[1]][j[2] + 1], outcome)
    /\ tts_running' = tts_running \ {j}
    /\ tts_tasks' = [tts_tasks EXCEPT ![j[1]][j[2] + 1] =
           [@ EXCEPT !.status = outcome, !.elapsed = 0]]
    /\ tts_semaphore' = Release(tts_semaphore)
    /\ UNCHANGED <<turns, text, pos, state, sentence_id, current_sentence, events,
                   bubbles, tts_queue, unyielded, yielded>>

Next ==
    \/ \E g \in turns : \E n \in ChunkSizes : OnToken(g, n) /\ UNCHANGED client
    \/ \E g \in turns : Yield(g) /\ UNCHANGED client
    \/ \E g \in turns : OnProducerEnd(g) /\ UNCHANGED client
    \/ \E g \in turns : OnProducerError(g) /\ UNCHANGED client
    \/ \E g \in turns : OnCancel(g) /\ UNCHANGED client
    \/ \E g \in turns : YieldResult(g) /\ UNCHANGED client
    \/ \E g \in turns : OnAllResolved(g) /\ UNCHANGED client
    \/ Admit /\ UNCHANGED client
    \/ Tick /\ UNCHANGED client
    \/ \E j \in tts_running : \E outcome \in Outcomes :
           Resolve(j, outcome) /\ UNCHANGED client

Spec == Init /\ [][Next]_vars

\* The producer eventually yields its next chunk, ends or fails; the response
\* keeps asking the generator for its next event; a waiting job is eventually
\* admitted when a permit is free; an admitted call returns, fails or runs
\* into its timeout; the generator yields the event of a task that has ended
\* and reacts to the last one.  Cancellation is the client's choice and the
\* passing of time before a call returns are never forced.
Fairness ==
    /\ \A g \in Groups :
           WF_engine(\/ \E n \in ChunkSizes : OnToken(g, n)
                   \/ OnProducerEnd(g)
                   \/ OnProducerError(g))
    /\ \A g \in Groups : WF_engine(Yield(g))
    /\ \A g \in Groups : WF_engine(YieldResult(g))
    /\ \A g \in Groups : WF_engine(OnAllResolved(g))
    /\ WF_engine(Admit)
    /\ WF_engine(\E j \in tts_running : \E outcome \in Outcomes : Resolve(j, outcome))

FairSpec == InitOf(LiveScenarios) /\ [][Next]_vars /\ Fairness

(***************************************************************************)
(* The download page: downloadUserVideosStream (api/index.ts) reads the    *)
(* response of /api/download/user-stream and hands its records to the      *)
(* callbacks of handleSubmit (App.vue).  A response body is a sequence of  *)
(* bytes: the byte of an ASCII character is written as the character, the  *)
(* two bytes of U+00A0 as "C2" "A0", those of U+00E9 as "C3" "A9".         *)
(***************************************************************************)
Q == "\""
LeadBytes == {"C2", "C3"}
ContinuationBytes == {"A0", "A9"}
Replacement == "U+FFFD"

\* the character of a lead byte and a continuation byte
TwoBytes(lead, continuation) ==
    CASE lead = "C2" /\ continuation = "A0" -> "U+A0"
      [] lead = "C2" /\ continuation = "A9" -> "U+A9"
      [] lead = "C3" /\ continuation = "A0" -> "U+E0"
      [] lead = "C3" /\ continuation = "A9" -> "U+E9"

\* TextEncoder: the bytes of a text
RECURSIVE utf8(_)
utf8(s) ==
    IF s = <<>> THEN <<>>
    ELSE (CASE Head(s) = "U+A0" -> <<"C2", "A0">>
            [] Head(s) = "U+A9" -> <<"C2", "A9">>
            [] Head(s) = "U+E0" -> <<"C3", "A0">>
            [] Head(s) = "U+E9" -> <<"C3", "A9">>
            [] OTHER -> <<Head(s)>>) \o utf8(Tail(s))

\* the words of the events
Word_type == <<"t", "y", "p", "e">>
Word_extracting == <<"e", "x", "t", "r", "a", "c", "t", "i", "n", "g">>
Word_extracted == <<"e", "x", "t", "r", "a", "c", "t", "e", "d">>
Word_downloading == <<"d", "o", "w", "n", "l", "o", "a", "d", "i", "n", "g">>
Word_downloaded == <<"d", "o", "w", "n", "l", "o", "a", "d", "e", "d">>
Word_done == <<"d", "o", "n", "e">>
Word_error == <<"e", "r", "r", "o", "r">>
Word_total == <<"t", "o", "t", "a", "l">>
Word_succeeded_so_far ==
    <<"s", "u", "c", "c", "e", "e", "d", "e", "d", "_", "s", "o", "_", "f", "a", "r">>
Word_remaining == <<"r", "e", "m", "a", "i", "n", "i", "n", "g">>
Word_success == <<"s", "u", "c", "c", "e", "s", "s">>
Word_permanently_failed ==
    <<"p", "e", "r", "m", "a", "n", "e", "n", "t", "l", "y", "_", "f", "a", "i", "l", "e", "d">>
Word_succeeded == <<"s", "u", "c", "c", "e", "e", "d", "e", "d">>
Word_failed == <<"f", "a", "i", "l", "e", "d">>
Word_message == <<"m", "e", "s", "s", "a", "g", "e">>

\* JSON texts
Str(cs) == <<Q>> \o cs \o <<Q>>
Obj(members) == <<"{">> \o members \o <<"}">>
TypeIs(cs) == Str(Word_type) \o <<":">> \o Str(cs)
JExtracting == Obj(TypeIs(Word_extracting))
JExtracted == Obj(TypeIs(Word_extracted) \o <<",">> \o Str(Word_total) \o <<":", "2">>)
JDone == Obj(TypeIs(Word_done))
JDoneOne == Obj(TypeIs(Word_done) \o <<",">> \o Str(Word_succeeded) \o <<":", "1">>)
JError == Obj(TypeIs(Word_error) \o <<",">> \o Str(Word_message) \o <<":">> \o Str(<<"U+E9">>))
\* a count of the videos still to come, and a video that has come
JDownloading == Obj(TypeIs(Word_downloading) \o <<",">> \o Str(Word_remaining) \o <<":", "1">>)
JDownloaded ==
    Obj(TypeIs(Word_downloaded) \o <<",">> \o Str(Word_success) \o <<":", "t", "r", "u", "e">>)
\* a text that is cut off inside its object
JCut == <<"{">> \o TypeIs(Word_done)
\* a text that is no object
JNull == <<"n", "u", "l", "l">>
\* done with a count that is a string
JDoneText ==
    Obj(TypeIs(Word_done) \o <<",">> \o Str(Word_succeeded) \o <<":">> \o Str(<<"1">>))
\* done with a count that has an own property toString
JDoneThrows ==
    Obj(TypeIs(Word_done) \o <<",">> \o Str(Word_succeeded) \o <<":">>
            \o Obj(Str(<<"t", "o", "S", "t", "r", "i", "n", "g">>) \o <<":", "1">>))

\* the records of the bodies
DATA == <<"d", "a", "t", "a", ":", " ">>
Record(json) == DATA \o json \o <<NL, NL>>

\* an error event without a message
JFailed == Obj(TypeIs(Word_error))

\* done with one success
BodyDone == Record(JDoneOne)
\* closes with neither done nor error
BodyOpen == Record(JExtracting)
\* the last record lacks its blank line
BodyUnterminated == DATA \o JDoneOne \o <<NL>>
\* records behind done
BodyLate == Record(JDoneOne) \o Record(JFailed)
\* a comment, a record that is not JSON, and a record behind a third newline
\* and two spaces: done without a count
BodyNoise ==
    <<":", "p", NL, NL>> \o Record(JCut) \o <<NL>>
        \o <<"d", "a", "t", "a", ":", " ", " ">> \o JDone \o <<NL, NL>>
\* extracted, then an error event
BodyError == Record(JExtracted) \o Record(JError)
\* the progress of one download, and no more
BodyProgress == Record(JDownloading) \o Record(JDownloaded)
\* done with a count that no comparison can convert, and a download behind it
BodyThrows == Record(JDoneThrows) \o Record(JDownloaded)
\* null, a text behind a no-break space, and a record between no-break
\* spaces: done with a count that is a string
BodyOdd ==
    Record(JNull) \o Record(<<"U+A0">> \o JExtracting)
        \o <<"U+A0">> \o DATA \o JDoneText \o <<"U+A0", NL, NL>>

\* the bodies of the responses, by name
Bodies ==
    [empty |-> <<>>, done |-> utf8(BodyDone), open |-> utf8(BodyOpen),
     unterminated |-> utf8(BodyUnterminated), late |-> utf8(BodyLate),
     noise |-> utf8(BodyNoise), error |-> utf8(BodyError), odd |-> utf8(BodyOdd),
     progress |-> utf8(BodyProgress), throws |-> utf8(BodyThrows)]

\* an OK response: its body, and whether the connection breaks behind it
Responses ==
    {[body |-> b, fails |-> FALSE] : b \in DOMAIN Bodies}
        \cup {[body |-> "open", fails |-> TRUE]}

\* the bytes of the body of the response the call i reads
Body(i) == Bodies[response[i].body]

\* the sizes of a read with left bytes of the body still to come
ReadSizes(left) == {n \in (1..MaxRead) \cup {left} : n <= left}

\* TextDecoder.decode(value, {stream: true}): the characters of the bytes
\* held back followed by the new bytes; a lead byte at the end is held back
decode(pending, bytes) ==
    LET s == pending \o bytes
        char(i) ==
            IF s[i] \in LeadBytes
            THEN IF s[i + 1] \in ContinuationBytes THEN "" ELSE Replacement
            ELSE IF s[i] \in ContinuationBytes
            THEN IF i > 1 /\ s[i - 1] \in LeadBytes THEN TwoBytes(s[i - 1], s[i])
                 ELSE Replacement
            ELSE s[i]
        held == s /= <<>> /\ s[Len(s)] \in LeadBytes
        n == IF held THEN Len(s) - 1 ELSE Len(s)
    IN  [out |-> SelectSeq([i \in 1..n |-> char(i)], LAMBDA c : c /= ""),
         pending |-> IF held THEN <<s[Len(s)]>> ELSE <<>>]

\* s.split('\n\n'), from the character at from on
RECURSIVE splitFrom(_, _)
splitFrom(s, from) ==
    LET hits == {i \in from..(Len(s) - 1) : s[i] = NL /\ s[i + 1] = NL}
    IN  IF hits = {} THEN <<SubSeq(s, from, Len(s))>>
        ELSE LET i == CHOOSE h \in hits : \A k \in hits : h <= k
             IN  <<SubSeq(s, from, i - 1)>> \o splitFrom(s, i + 2)

split(s) == splitFrom(s, 1)

\* parts.pop() || '': the text behind the last blank line
pop_empty(parts) == <<>>
pop(parts) == parts[Len(parts)]

\* the parts the pop leaves
Popped(parts) == SubSeq(parts, 1, Len(parts) - 1)

\* the element of a set of one: The({e : x \in {v}}) is e for the value v
\* as x, which is worked out once however often e refers to it
The(S) == CHOOSE x \in S : TRUE

\* the greatest element of S, found as the least of the negated elements
Max(S) == 0 - Min({0 - x : x \in S})

\* the printable characters of ASCII, U+0020 to U+007E
Ascii ==
    <<" ", "!", "\"", "#", "$", "%", "&", "'", "(", ")", "*", "+",
      ",", "-", ".", "/", "0", "1", "2", "3", "4", "5", "6", "7",
      "8", "9", ":", ";", "<", "=", ">", "?", "@", "A", "B", "C",
      "D", "E", "F", "G", "H", "I", "J", "K", "L", "M", "N", "O",
      "P", "Q", "R", "S", "T", "U", "V", "W", "X", "Y", "Z", "[",
      "\\", "]", "^", "_", "U+60", "a", "b", "c", "d", "e", "f", "g",
      "h", "i", "j", "k", "l", "m", "n", "o", "p", "q", "r", "s",
      "t", "u", "v", "w", "x", "y", "z", "{", "|", "}", "~">>

HexChars == <<"0", "1", "2", "3", "4", "5", "6", "7", "8", "9", "A", "B", "C", "D", "E", "F">>
LowerHexChars ==
    <<"0", "1", "2", "3", "4", "5", "6", "7", "8", "9", "a", "b", "c", "d", "e", "f">>
HexDigit ==
    {"0", "1", "2", "3", "4", "5", "6", "7", "8", "9",
     "A", "B", "C", "D", "E", "F", "a", "b", "c", "d", "e", "f"}
HexVal(c) == CHOOSE v \in 0..15 : c = HexChars[v + 1] \/ c = LowerHexChars[v + 1]

DecimalDigit == {"0", "1", "2", "3", "4", "5", "6", "7", "8", "9"}
DigitVal(c) == CHOOSE v \in 0..9 : c = HexChars[v + 1]
DigitChar(v) == HexChars[v + 1]

\* the hexadecimal numeral of n, without leading zeros
RECURSIVE Hex(_)
Hex(n) == IF n < 16 THEN HexChars[n + 1] ELSE Hex(n \div 16) \o HexChars[(n % 16) + 1]

\* the character with the code n
CodeName(n) ==
    IF n = 9 THEN "\t"
    ELSE IF n = 10 THEN NL
    ELSE IF n = 12 THEN "\f"
    ELSE IF n = 13 THEN "\r"
    ELSE IF n >= 32 /\ n <= 126 THEN Ascii[n - 31]
    ELSE "U+" \o Hex(n)

\* U+0000 to U+001F
ControlCharacter ==
    {"U+0", "U+1", "U+2", "U+3", "U+4", "U+5", "U+6", "U+7", "U+8", "\t", NL,
     "U+B", "\f", "\r", "U+E", "U+F", "U+10", "U+11", "U+12", "U+13", "U+14",
     "U+15", "U+16", "U+17", "U+18", "U+19", "U+1A", "U+1B", "U+1C", "U+1D",
     "U+1E", "U+1F"}

WhiteSpace ==
    {"\t", "U+B", "\f", " ", "U+A0", "U+1680", "U+2000", "U+2001", "U+2002",
     "U+2003", "U+2004", "U+2005", "U+2006", "U+2007", "U+2008", "U+2009",
     "U+200A", "U+202F", "U+205F", "U+3000", "U+FEFF",
     NL, "\r", "U+2028", "U+2029"}

trim(s) ==
    LET keep == {i \in 1..Len(s) : s[i] \notin WhiteSpace}
    IN  IF keep = {} THEN <<>>
        ELSE SubSeq(s, Min(keep), Max(keep))

\* Natural numbers of any size.  A natural number is the sequence of its
\* decimal digits, the units first and no zero at its upper end; the empty
\* sequence is 0.
Reverse(s) == [i \in 1..Len(s) |-> s[Len(s) + 1 - i]]
Digit(a, i) == IF i >= 1 /\ i <= Len(a) THEN a[i] ELSE 0

\* the digits without the zeros at their end
StripRight(ds) ==
    LET keep == {i \in 1..Len(ds) : ds[i] /= 0}
    IN  IF keep = {} THEN <<>> ELSE SubSeq(ds, 1, Max(keep))
\* the digits without the zeros at their start
StripLeft(ds) ==
    LET keep == {i \in 1..Len(ds) : ds[i] /= 0}
    IN  IF keep = {} THEN <<>> ELSE SubSeq(ds, Min(keep), Len(ds))
\* the natural number of the digits
Natural(a) == The({StripRight(x) : x \in {a}})
One == <<1>>

\* a < b
Less(a, b) ==
    \/ Len(a) < Len(b)
    \/ /\ Len(a) = Len(b)
       /\ LET differ == {i \in 1..Len(a) : a[i] /= b[i]}
          IN  differ /= {} /\ a[Max(differ)] < b[Max(differ)]

\* a * 10^k
Shift(a, k) == IF a = <<>> THEN <<>> ELSE [i \in 1..k |-> 0] \o a

\* 2 * a: the carry out of a digit does not depend on the carry into it
Twice(a) ==
    LET carry(i) == IF Digit(a, i) >= 5 THEN 1 ELSE 0
    IN  Natural([i \in 1..(Len(a) + 1) |-> ((2 * Digit(a, i)) % 10) + carry(i - 1)])

\* a / 2, rounded down
Halve(a) ==
    Natural([i \in 1..Len(a) |->
                 (a[i] \div 2) + (IF Digit(a, i + 1) % 2 = 1 THEN 5 ELSE 0)])

\* 5 * a
Five(a) == The({Halve(x) : x \in {Shift(a, 1)}})

\* a * 2^k, one half of the doublings after the other
RECURSIVE TwiceN(_, _)
TwiceN(a, k) ==
    IF k <= 0 THEN a
    ELSE IF k = 1 THEN The({Twice(x) : x \in {a}})
    ELSE The({TwiceN(x, k - (k \div 2)) : x \in {TwiceN(a, k \div 2)}})

\* a * 5^k
RECURSIVE FiveN(_, _)
FiveN(a, k) ==
    IF k <= 0 THEN a
    ELSE IF k = 1 THEN The({Five(x) : x \in {a}})
    ELSE The({FiveN(x, k - (k \div 2)) : x \in {FiveN(a, k \div 2)}})

\* the carries out of the places lo..hi for the carry c into the place lo; at[i]
\* is 1 where the place makes a carry, 0 where it makes none and 2 where it
\* hands on the carry it takes
RECURSIVE Carries(_, _, _, _)
Carries(at, lo, hi, c) ==
    IF lo > hi THEN <<>>
    ELSE IF lo = hi THEN <<IF at[lo] = 2 THEN c ELSE at[lo]>>
    ELSE The({left \o Carries(at, lo + ((hi - lo) \div 2) + 1, hi, left[Len(left)])
              : left \in {Carries(at, lo, lo + ((hi - lo) \div 2), c)}})

\* a + b: a digit hands on the carry it takes when its sum is 9
Add(a, b) ==
    LET n == (IF Len(a) > Len(b) THEN Len(a) ELSE Len(b)) + 1
        sum(i) == Digit(a, i) + Digit(b, i)
    IN  The({The({Natural([i \in 1..n |-> (sum(i) + carry[i]) % 10])
                  : carry \in {<<0>> \o Carries(at, 1, n, 0)}})
             : at \in {[i \in 1..n |-> IF sum(i) >= 10 THEN 1 ELSE IF sum(i) = 9 THEN 2 ELSE 0]}})

\* a - b, for b <= a: a digit hands on the borrow it takes when it is equal
\* to the digit under it
Sub(a, b) ==
    The({The({Natural([i \in 1..Len(a) |-> (a[i] - Digit(b, i) - borrow[i] + 10) % 10])
              : borrow \in {<<0>> \o Carries(at, 1, Len(a), 0)}})
         : at \in {[i \in 1..Len(a) |-> IF a[i] < Digit(b, i) THEN 1
                                        ELSE IF a[i] = Digit(b, i) THEN 2 ELSE 0]}})

\* the multiples of b, from 1 to 9
Multiples(b) ==
    The({The({The({<<b, m2, m3, m4, m5, m6, Add(m6, b), m8, Add(m8, b)>>
                   : m5 \in {Add(m4, b)}, m6 \in {Twice(m3)}, m8 \in {Twice(m4)}})
              : m3 \in {Add(m2, b)}, m4 \in {Twice(m2)}})
         : m2 \in {Twice(b)}})

\* the digit of the quotient of a by the divisor with these multiples
QuotientDigit(a, multiples) ==
    LET fit == {q \in 1..9 : ~Less(a, multiples[q])}
    IN  IF fit = {} THEN 0 ELSE Max(fit)

\* One step of the long division by the number whose multiples are given: the
\* digit of the quotient at the place s.places, taken off the remainder s.a
DivideStep(s, multiples) ==
    The({The({[a |-> IF q = 0 THEN s.a ELSE Sub(s.a, shifted[q]),
               quotient |-> Append(s.quotient, q),
               places |-> s.places - 1]
              : q \in {QuotientDigit(s.a, shifted)}})
         : shifted \in {[q \in 1..9 |-> Shift(multiples[q], s.places - 1)]}})

\* k steps of the long division
RECURSIVE DivideN(_, _, _)
DivideN(s, multiples, k) ==
    IF k <= 0 THEN s
    ELSE IF k = 1 THEN The({DivideStep(x, multiples) : x \in {s}})
    ELSE The({DivideN(x, multiples, k - (k \div 2)) : x \in {DivideN(s, multiples, k \div 2)}})

\* the quotient and the remainder of a by the number whose multiples are given,
\* for a quotient below 10^places
Divide(a, multiples, places) ==
    The({[quotient |-> Natural(Reverse(s.quotient)), remainder |-> s.a]
         : s \in {DivideN([a |-> a, quotient |-> <<>>, places |-> places], multiples, places)}})

\* The Number type: IEEE 754 binary64.
Two52 == <<6, 9, 4, 0, 7, 3, 7, 2, 6, 9, 9, 5, 3, 0, 5, 4>>
Two53 == <<2, 9, 9, 0, 4, 7, 4, 5, 2, 9, 9, 1, 7, 0, 0, 9>>
MinExponent == 0 - 1074
MaxExponentOfTwo == 971

\* the number m * 2^e, or an infinity, for m up to 2^53
Finite(m, e) ==
    IF m = <<>> THEN [zero |-> TRUE]
    ELSE IF m = Two53
    THEN (IF e + 1 > MaxExponentOfTwo THEN [infinite |-> TRUE] ELSE [m |-> Two52, e |-> e + 1])
    ELSE IF e > MaxExponentOfTwo THEN [infinite |-> TRUE]
    ELSE [m |-> m, e |-> e]

\* the quotient d.quotient with the remainder d.remainder by q, rounded to a
\* whole number, ties to the even one
RoundUp(d, q) ==
    The({Less(q, twice) \/ (twice = q /\ Digit(d.quotient, 1) % 2 = 1)
         : twice \in {Twice(d.remainder)}})

\* n / (q * 2^e) rounded to a whole number, ties to the even one, for a
\* quotient below 2^53
Rounded(n, q, e) ==
    The({The({IF RoundUp(d, q)
              THEN The({Finite(m, e) : m \in {Add(d.quotient, One)}})
              ELSE Finite(d.quotient, e)
              : d \in {Divide(n, multiples, 16)}})
         : multiples \in {Multiples(q)}})

\* n / q as m * 2^e, for n / q below 2^62 and not below 2^54 unless e is the
\* least exponent: q is doubled until the quotient is below 2^53
Scaled(n, q, e) ==
    The({The({The({Rounded(n, divisor, e + up) : divisor \in {TwiceN(q, up)}})
              : up \in {Min({k \in 0..8 : The({Less(n, x) : x \in {TwiceN(limit, k)}})})}})
         : limit \in {TwiceN(q, 53)}})

\* The number nearest to digits * 10^exp (the digits of a natural, not 0),
\* ties to the even one: m * 2^e with m below 2^53, and with m at least 2^52
\* unless e is the least exponent; or an infinity, or 0
DoubleOf(digits, exp) ==
    LET top == Len(digits) + exp
        \* a power of two that is below the number
        guess == (((top - 1) * 33219) \div 10000) - 54
        e == IF guess < MinExponent THEN MinExponent ELSE guess
    IN  IF top > 310 THEN [infinite |-> TRUE]
        ELSE IF top < 0 - 330 THEN [zero |-> TRUE]
        ELSE The({The({Scaled(n1, q1, e)
                       : n1 \in {IF e < 0 THEN TwiceN(n, 0 - e) ELSE n},
                         q1 \in {IF e > 0 THEN TwiceN(q, e) ELSE q}})
                  : n \in {IF exp > 0 THEN Shift(digits, exp) ELSE digits},
                    q \in {IF exp < 0 THEN Shift(One, 0 - exp) ELSE One}})

\* One step of the long multiplication by m: the multiple for the digit of m
\* at the place s.place, at that place, added to s.sum
TimesStep(s, multiples, m) ==
    IF m[s.place] = 0 THEN [sum |-> s.sum, place |-> s.place + 1]
    ELSE The({[sum |-> Add(s.sum, x), place |-> s.place + 1]
              : x \in {Shift(multiples[m[s.place]], s.place - 1)}})

\* k steps of the long multiplication
RECURSIVE TimesN(_, _, _, _)
TimesN(s, multiples, m, k) ==
    IF k <= 0 THEN s
    ELSE IF k = 1 THEN The({TimesStep(x, multiples, m) : x \in {s}})
    ELSE The({TimesN(x, multiples, m, k - (k \div 2)) : x \in {TimesN(s, multiples, m, k \div 2)}})

\* a * m
Times(a, m) ==
    The({TimesN([sum |-> <<>>, place |-> 1], multiples, m, Len(m)).sum
         : multiples \in {Multiples(a)}})

\* c lies between low and high, the ends taken in when closed
Between(c, low, high, closed) ==
    IF closed THEN ~Less(c, low) /\ ~Less(high, c) ELSE Less(low, c) /\ Less(c, high)

\* v cut to its n upper digits
Floor(v, n) == [i \in 1..Len(v) |-> IF i > Len(v) - n THEN v[i] ELSE 0]

\* of the decimals f below v and c above it, a unit apart, the one nearer to
\* v, the even one when v is half way
Nearer(v, f, c, unit, place) ==
    The({IF Less(twice, unit) THEN f
         ELSE IF Less(unit, twice) THEN c
         ELSE IF Digit(f, place) % 2 = 0 THEN f ELSE c
         : twice \in {The({Twice(below) : below \in {Sub(v, f)}})}})

\* the decimal of n digits that names v, the number between low and high:
\* v cut to n digits or the decimal above that, none when neither is between
Named(v, n, low, high, closed) ==
    The({The({IF n = Len(v) THEN <<v>>
              ELSE IF Between(f, low, high, closed)
              THEN (IF Between(c, low, high, closed)
                    THEN <<Nearer(v, f, c, unit, Len(v) - n + 1)>> ELSE <<f>>)
              ELSE IF Between(c, low, high, closed) THEN <<c>>
              ELSE <<>>
              : c \in {Add(f, unit)}})
         : f \in {Floor(v, n)}, unit \in {Shift(One, Len(v) - n)}})

\* the decimal without the zeros at its lower end
Stripped(best, scale) ==
    LET zeros == Min({i \in 1..Len(best) : best[i] /= 0}) - 1
    IN  [digits |-> Reverse(SubSeq(best, zeros + 1, Len(best))), exp |-> scale + zeros]

\* the fewest digits that name v, the number between low and high
Shortest(v, low, high, closed, scale) ==
    The({The({Stripped(best, scale) : best \in {Named(v, n, low, high, closed)[1]}})
         : n \in {Min({k \in 1..(IF Len(v) < 17 THEN Len(v) ELSE 17) :
                           Named(v, k, low, high, closed) /= <<>>})}})

\* The fewest digits that name the number m * 2^e and no other: a decimal
\* between the midpoints to the numbers next to it (the midpoints themselves
\* when m is even), the one nearest to the number when there are two.  All
\* in units of 10^scale, of which 2^(e-2), the quarter, is a whole number
ShortestOf(m, e) ==
    LET scale == IF e - 2 < 0 THEN e - 2 ELSE 0
        narrow == m = Two52 /\ e > MinExponent
    IN  The({The({The({The({Shortest(v, low, high, m[1] % 2 = 0, scale)
                            : low \in {Sub(v, IF narrow THEN quarter ELSE above)},
                              high \in {Add(v, above)}})
                       : v \in {Times(unit, m)}})
                  : above \in {Twice(quarter)}, unit \in {TwiceN(quarter, 2)}})
             : quarter \in {IF e - 2 < 0 THEN FiveN(One, 2 - e) ELSE TwiceN(One, e - 2)}})

\* the Number nearest to sign * d * 10^e, d without zeros at its ends
Nearest(sign, d, e) ==
    IF d = <<>> THEN NumberValue(sign, <<>>, 0)
    ELSE IF Len(d) <= 15 /\ Len(d) + e > 0 - 307 /\ Len(d) + e <= 308
    THEN NumberValue(sign, d, e)
    ELSE The({IF "infinite" \in DOMAIN double THEN Infinity(sign)
              ELSE IF "zero" \in DOMAIN double THEN NumberValue(sign, <<>>, 0)
              ELSE The({NumberValue(sign, shortest.digits, shortest.exp)
                        : shortest \in {ShortestOf(double.m, double.e)}})
              : double \in {The({DoubleOf(r, e) : r \in {Reverse(d)}})}})

\* the Number nearest to the decimal sign * ds * 10^exp (the upper digit first)
Decimal(sign, ds, exp) ==
    The({The({Nearest(sign, d, exp + Len(l) - Len(d)) : d \in {StripRight(l)}})
         : l \in {The({StripLeft(all) : all \in {ds}})}})

JSONWhiteSpace == {"\t", NL, "\r", " "}
Backslash == "\\"

Fail == [ok |-> FALSE]
Ok(v, n) == [ok |-> TRUE, val |-> v, next |-> n]

\* s[i], "" beyond the text
CharAt(s, i) == IF i >= 1 /\ i <= Len(s) THEN s[i] ELSE ""

\* the first position from i on that holds no character of set
SkipAll(s, i, set) ==
    LET stop == {k \in i..Len(s) : s[k] \notin set}
    IN  IF stop = {} THEN (IF i > Len(s) THEN i ELSE Len(s) + 1) ELSE Min(stop)

SkipWhiteSpace(s, i) == SkipAll(s, i, JSONWhiteSpace)

startsAt(s, i, word) == i + Len(word) - 1 <= Len(s) /\ SubSeq(s, i, i + Len(word) - 1) = word

\* the number of backslashes right before k, from the position from on
RunBefore(s, from, k) ==
    LET other == {j \in from..(k - 1) : s[j] /= Backslash}
    IN  k - 1 - (IF other = {} THEN from - 1 ELSE Max(other))

\* the backslash at k starts an escape
EscapeStart(s, from, k) ==
    k >= from /\ k <= Len(s) /\ s[k] = Backslash /\ RunBefore(s, from, k) % 2 = 0

SimpleEscape(c) ==
    CASE c = Q -> Q
      [] c = Backslash -> Backslash
      [] c = "/" -> "/"
      [] c = "b" -> "U+8"
      [] c = "f" -> "\f"
      [] c = "n" -> NL
      [] c = "r" -> "\r"
      [] c = "t" -> "\t"
      [] OTHER -> ""

Hex4(s, k) ==
    4096 * HexVal(s[k]) + 256 * HexVal(s[k + 1]) + 16 * HexVal(s[k + 2]) + HexVal(s[k + 3])

\* the code units U+D800 to U+DBFF and U+DC00 to U+DFFF
HighSurrogate == 55296..56319
LowSurrogate == 56320..57343
\* the code point of a surrogate pair
SurrogatePair(high, low) == 65536 + ((high - 55296) * 1024) + (low - 56320)

\* the characters of a well-formed JSON string between from and its closing
\* quote at end; a \u escape of a high surrogate and one of a low surrogate
\* right after it are the two halves of one character
StringBody(s, from, end) ==
    LET escaped(k) == EscapeStart(s, from, k - 1)
        hexpart(k) ==
            \E j \in (k - 5)..(k - 2) : CharAt(s, j + 1) = "u" /\ EscapeStart(s, from, j)
        wellformed(k) ==
            IF EscapeStart(s, from, k)
            THEN \/ SimpleEscape(s[k + 1]) /= ""
                 \/ /\ s[k + 1] = "u"
                    /\ k + 5 < end
                    /\ \A h \in (k + 2)..(k + 5) : s[h] \in HexDigit
            ELSE escaped(k) \/ hexpart(k) \/ s[k] \notin ControlCharacter
        unicode(k) == EscapeStart(s, from, k) /\ k + 5 < end /\ s[k + 1] = "u"
        high(k) == unicode(k) /\ Hex4(s, k + 2) \in HighSurrogate
        low(k) == unicode(k) /\ Hex4(s, k + 2) \in LowSurrogate
        unit(k) ==
            IF EscapeStart(s, from, k)
            THEN IF s[k + 1] = "u"
                 THEN IF high(k) /\ low(k + 6)
                      THEN CodeName(SurrogatePair(Hex4(s, k + 2), Hex4(s, k + 8)))
                      ELSE IF low(k) /\ high(k - 6) THEN ""
                      ELSE The({CodeName(n) : n \in {Hex4(s, k + 2)}})
                 ELSE SimpleEscape(s[k + 1])
            ELSE IF escaped(k) \/ hexpart(k) THEN ""
            ELSE s[k]
    IN  IF \E k \in from..(end - 1) : ~wellformed(k) THEN Fail
        ELSE Ok(StringValue(SelectSeq([n \in 1..(end - from) |-> unit(from + n - 1)],
                                      LAMBDA c : c /= "")),
                end + 1)

\* a JSON string whose opening quote is at i
ParseString(s, i) ==
    LET quotes == {k \in (i + 1)..Len(s) : s[k] = Q /\ RunBefore(s, i + 1, k) % 2 = 0}
    IN  IF quotes = {} THEN Fail
        ELSE The({StringBody(s, i + 1, end) : end \in {Min(quotes)}})

\* the natural number n as digits, the units first
RECURSIVE NaturalOf(_)
NaturalOf(n) == IF n = 0 THEN <<>> ELSE <<n % 10>> \o NaturalOf(n \div 10)

\* the sum of da with the sign sa and db with the sign sb, as a sign and digits
SignedSum(sa, da, sb, db) ==
    IF sa = sb THEN [sign |-> sa, digits |-> Add(da, db)]
    ELSE IF da = db THEN [sign |-> 1, digits |-> <<>>]
    ELSE IF Less(da, db) THEN [sign |-> sb, digits |-> Sub(db, da)]
    ELSE [sign |-> sa, digits |-> Sub(da, db)]

\* the value of the digits of an exponent, read exactly: a natural number of
\* any size, the units first
ExponentOf(ds) == The({Natural(Reverse(all)) : all \in {ds}})

\* the place of the decimal point of the digits 0.d1 d2 ... that stand at
\* the place k, with the exponent e of the sign es: e + k, and a thousand
\* places to either side for every place beyond them
PointOf(es, e, k) ==
    The({IF Len(sum.digits) > 3 THEN sum.sign * 1000
         ELSE sum.sign * (Digit(sum.digits, 1) + 10 * Digit(sum.digits, 2)
                          + 100 * Digit(sum.digits, 3))
         : sum \in {The({SignedSum(es, e, IF k < 0 THEN 0 - 1 ELSE 1, n)
                         : n \in {NaturalOf(IF k < 0 THEN 0 - k ELSE k)}})}})

\* the number of a JSON number at i: its integer digits from a to b, its
\* fraction up to c, the digits of its exponent from d0 to d
NumberOf(s, i, a, b, c, d0, d) ==
    LET int == [k \in 1..(b - a) |-> DigitVal(s[a + k - 1])]
        frac == IF c > b THEN [k \in 1..(c - b - 1) |-> DigitVal(s[b + k])] ELSE <<>>
        e == IF d > c THEN ExponentOf([k \in 1..(d - d0) |-> DigitVal(s[d0 + k - 1])]) ELSE <<>>
        es == IF d > c /\ CharAt(s, c + 1) = "-" THEN 0 - 1 ELSE 1
        sign == IF s[i] = "-" THEN 0 - 1 ELSE 1
    IN  The({The({The({Nearest(sign, ds, top - Len(ds))
                       : top \in {PointOf(es, e, Len(l) - Len(frac))}})
                  : ds \in {StripRight(l)}})
             : l \in {The({StripLeft(all) : all \in {int \o frac}})}})

\* the end of the digits of an exponent after c, c when there is none
ExponentEnd(s, c) ==
    IF CharAt(s, c) \in {"e", "E"}
    THEN SkipAll(s, IF CharAt(s, c + 1) \in {"+", "-"} THEN c + 2 ELSE c + 1, DecimalDigit)
    ELSE c

\* a JSON number that starts at i
ParseNumber(s, i) ==
    LET a == IF s[i] = "-" THEN i + 1 ELSE i
        d0(c) == IF CharAt(s, c + 1) \in {"+", "-"} THEN c + 2 ELSE c + 1
    IN  The({The({The({IF b = a \/ (CharAt(s, b) = "." /\ c = b + 1)
                          \/ (CharAt(s, c) \in {"e", "E"} /\ d = d0(c))
                       THEN Fail
                       ELSE Ok(NumberOf(s, i, a, b, c, d0(c), d), d)
                       : d \in {ExponentEnd(s, c)}})
                  : c \in {IF CharAt(s, b) = "." THEN SkipAll(s, b + 1, DecimalDigit) ELSE b}})
             : b \in {IF CharAt(s, a) = "0" THEN a + 1 ELSE SkipAll(s, a, DecimalDigit)}})

\* the keys of the array indices, "0" to "4294967294"
ArrayIndex(key) ==
    /\ key /= <<>>
    /\ \A i \in 1..Len(key) : key[i] \in DecimalDigit
    /\ key[1] = "0" => Len(key) = 1
    /\ \/ Len(key) < 10
       \/ /\ Len(key) = 10
          /\ LET limit == <<4, 2, 9, 4, 9, 6, 7, 2, 9, 4>>
                 differ == {i \in 1..10 : DigitVal(key[i]) /= limit[i]}
             IN  differ = {} \/ DigitVal(key[Min(differ)]) < limit[Min(differ)]

\* the index a is less than the index b
IndexLess(a, b) ==
    \/ Len(a) < Len(b)
    \/ /\ Len(a) = Len(b)
       /\ LET differ == {i \in 1..Len(a) : a[i] /= b[i]}
          IN  differ /= {} /\ DigitVal(a[Min(differ)]) < DigitVal(b[Min(differ)])

\* the positions in the order their keys are enumerated: the array indices by
\* value, then the other keys as they were created
RECURSIVE Enumerate(_, _)
Enumerate(keys, left) ==
    IF left = {} THEN <<>>
    ELSE LET before(p, q) ==
                 IF ArrayIndex(keys[p])
                 THEN ~ArrayIndex(keys[q]) \/ IndexLess(keys[p], keys[q])
                 ELSE ~ArrayIndex(keys[q]) /\ p < q
         IN  The({The({<<p>> \o Enumerate(keys, rest) : rest \in {left \ {p}}})
                  : p \in {CHOOSE x \in left : \A y \in left \ {x} : before(x, y)}})

\* the object of the members of an object literal: a key that comes again
\* keeps its place and takes the later value
ObjectOf(keys, values) ==
    LET firsts == {p \in 1..Len(keys) : \A q \in 1..(p - 1) : keys[q] /= keys[p]}
        last(p) == Max({q \in 1..Len(keys) : keys[q] = keys[p]})
    IN  The({ObjectValue([k \in 1..Len(order) |-> keys[order[k]]],
                         [k \in 1..Len(order) |-> values[last(order[k])]])
             : order \in {Enumerate(keys, firsts)}})

RECURSIVE ParseValue(_, _), ParseElements(_, _, _), ParseMembers(_, _, _, _)

\* the JSON value that starts at i
ParseValue(s, i) ==
    LET c == CharAt(s, i)
        j == SkipWhiteSpace(s, i + 1)
    IN  IF c = "{"
        THEN IF CharAt(s, j) = "}" THEN Ok(ObjectValue(<<>>, <<>>), j + 1)
             ELSE The({ParseMembers(s, n, <<>>, <<>>) : n \in {j}})
        ELSE IF c = "["
        THEN IF CharAt(s, j) = "]" THEN Ok(ArrayValue(<<>>), j + 1)
             ELSE The({ParseElements(s, n, <<>>) : n \in {j}})
        ELSE IF c = Q THEN ParseString(s, i)
        ELSE IF c = "-" \/ c \in DecimalDigit THEN ParseNumber(s, i)
        ELSE IF startsAt(s, i, <<"t", "r", "u", "e">>) THEN Ok(BooleanValue(TRUE), i + 4)
        ELSE IF startsAt(s, i, <<"f", "a", "l", "s", "e">>) THEN Ok(BooleanValue(FALSE), i + 5)
        ELSE IF startsAt(s, i, <<"n", "u", "l", "l">>) THEN Ok(Null, i + 4)
        ELSE Fail

\* the elements of an array after the value v, items those before it
ElementsAfter(s, v, items) ==
    The({IF CharAt(s, j) = ","
         THEN The({ParseElements(s, n, all) : n \in {SkipWhiteSpace(s, j + 1)}})
         ELSE IF CharAt(s, j) = "]" THEN Ok(ArrayValue(all), j + 1)
         ELSE Fail
         : j \in {SkipWhiteSpace(s, v.next)}, all \in {Append(items, v.val)}})

\* the elements of an array from i on, items those before
ParseElements(s, i, items) ==
    The({IF v.ok THEN ElementsAfter(s, v, items) ELSE Fail : v \in {ParseValue(s, i)}})

\* the value of a member whose key ends before i
MemberValue(s, i) ==
    The({IF CharAt(s, colon) = ":"
         THEN The({ParseValue(s, n) : n \in {SkipWhiteSpace(s, colon + 1)}})
         ELSE Fail
         : colon \in {SkipWhiteSpace(s, i)}})

\* the members of an object after the member of the key k and the value v,
\* keys and values those before it
MembersAfter(s, k, v, keys, values) ==
    The({IF CharAt(s, j) = ","
         THEN The({ParseMembers(s, n, ks, vs) : n \in {SkipWhiteSpace(s, j + 1)}})
         ELSE IF CharAt(s, j) = "}" THEN Ok(ObjectOf(ks, vs), j + 1)
         ELSE Fail
         : j \in {SkipWhiteSpace(s, v.next)},
           ks \in {Append(keys, k.val.chars)}, vs \in {Append(values, v.val)}})

\* the members of an object from i on, keys and values those before
ParseMembers(s, i, keys, values) ==
    The({IF ~k.ok THEN Fail
         ELSE The({IF v.ok THEN MembersAfter(s, k, v, keys, values) ELSE Fail
                   : v \in {MemberValue(s, k.next)}})
         : k \in {IF CharAt(s, i) = Q THEN ParseString(s, i) ELSE Fail}})

\* JSON.parse(s): the value in a sequence of one, none for a SyntaxError
JSON_parse(s) ==
    The({The({IF v.ok /\ SkipWhiteSpace(json, v.next) > Len(json) THEN <<v.val>> ELSE <<>>
              : v \in {The({ParseValue(json, i) : i \in {SkipWhiteSpace(json, 1)}})}})
         : json \in {s}})

startsWith(s, prefix) == Len(s) >= Len(prefix) /\ SubSeq(s, 1, Len(prefix)) = prefix

slice(s, n) == SubSeq(s, n + 1, Len(s))

\* the event one part gives, if any: its text is parsed when it starts, the
\* white space at its ends aside, with "data: "
EventOf(part) ==
    The({IF startsWith(line, DATA) THEN JSON_parse(slice(line, 6)) ELSE <<>>
         : line \in {trim(part)}})

\* the events the parts give, in order
RECURSIVE EventsOf(_)
EventsOf(parts) ==
    IF parts = <<>> THEN <<>>
    ELSE The({EventOf(Head(ps)) \o EventsOf(Tail(ps)) : ps \in {parts}})


\* ---- the operations of JavaScript the callbacks use ----
\* ---- the operations of JavaScript the callbacks use ----
ToBoolean(v) ==
    CASE v.kind \in {"undefined", "null"} -> FALSE
      [] v.kind = "boolean" -> v.bool
      [] v.kind = "number" -> v /= NaN /\ v /= NumberValue(1, <<>>, 0) /\ v /= NumberValue(0 - 1, <<>>, 0)
      [] v.kind = "string" -> v.chars /= <<>>
      [] OTHER -> TRUE

\* the digits of the natural n, the upper digit first
RECURSIVE DigitsOf(_)
DigitsOf(n) == IF n < 10 THEN <<DigitChar(n)>> ELSE Append(DigitsOf(n \div 10), DigitChar(n % 10))

\* Number::toString
NumberToString(v) ==
    IF v = NaN THEN <<"N", "a", "N">>
    ELSE LET minus == IF v.sign < 0 THEN <<"-">> ELSE <<>>
         IN  IF "infinite" \in DOMAIN v
             THEN minus \o <<"I", "n", "f", "i", "n", "i", "t", "y">>
             ELSE IF v.digits = <<>> THEN <<"0">>
             ELSE LET k == Len(v.digits)
                      n == k + v.exp
                      ds == [i \in 1..k |-> DigitChar(v.digits[i])]
                      zeros(z) == [i \in 1..z |-> "0"]
                      e == n - 1
                  IN  minus \o
                      (IF k <= n /\ n <= 21 THEN ds \o zeros(n - k)
                       ELSE IF 0 < n /\ n <= 21
                       THEN SubSeq(ds, 1, n) \o <<".">> \o SubSeq(ds, n + 1, k)
                       ELSE IF 0 - 6 < n /\ n <= 0
                       THEN <<"0", ".">> \o zeros(0 - n) \o ds
                       ELSE <<ds[1]>> \o (IF k > 1 THEN <<".">> \o SubSeq(ds, 2, k) ELSE <<>>)
                            \o <<"e">> \o (IF e < 0 THEN <<"-">> \o DigitsOf(0 - e)
                                           ELSE <<"+">> \o DigitsOf(e)))

\* the texts of the elements, with commas between them
RECURSIVE JoinFrom(_, _)
JoinFrom(texts, i) ==
    IF i > Len(texts) THEN <<>>
    ELSE (IF i > 1 THEN <<",">> ELSE <<>>) \o texts[i] \o JoinFrom(texts, i + 1)
Join(texts) == The({JoinFrom(all, 1) : all \in {texts}})

\* the exception of a conversion of an object to a primitive value
TypeError == [kind |-> "TypeError"]

\* whether the conversion of v to a primitive value throws.  The own
\* properties of a parsed object are never functions: an own toString hides
\* Object.prototype.toString, and valueOf, own or inherited, gives no
\* primitive value.  The text of an array is the join of the texts of its
\* elements that are neither undefined nor null.
RECURSIVE Throws(_)
Throws(v) ==
    CASE v.kind = "object" ->
             \E i \in 1..Len(v.keys) : v.keys[i] = <<"t", "o", "S", "t", "r", "i", "n", "g">>
      [] v.kind = "array" -> \E i \in 1..Len(v.items) : Throws(v.items[i])
      [] OTHER -> FALSE

\* ToString: the text of v, or the TypeError of its conversion
RECURSIVE ToString(_)
ToString(v) ==
    IF Throws(v) THEN TypeError
    ELSE
    CASE v.kind = "undefined" -> <<"u", "n", "d", "e", "f", "i", "n", "e", "d">>
      [] v.kind = "null" -> <<"n", "u", "l", "l">>
      [] v.kind = "boolean" ->
             IF v.bool THEN <<"t", "r", "u", "e">> ELSE <<"f", "a", "l", "s", "e">>
      [] v.kind = "number" -> NumberToString(v)
      [] v.kind = "string" -> v.chars
      [] v.kind = "array" ->
             Join([i \in 1..Len(v.items) |->
                      IF v.items[i].kind \in {"undefined", "null"} THEN <<>>
                      ELSE ToString(v.items[i])])
      [] v.kind = "object" ->
             <<"[", "o", "b", "j", "e", "c", "t", " ", "O", "b", "j", "e", "c", "t", "]">>

\* ToPrimitive: an array or an object gives its text, or throws
ToPrimitive(v) ==
    IF Throws(v) THEN TypeError
    ELSE IF v.kind \in {"array", "object"} THEN StringValue(ToString(v)) ELSE v

\* 2^n
RECURSIVE Pow2(_)
Pow2(n) == IF n = 0 THEN 1 ELSE 2 * Pow2(n - 1)

\* the natural n, below 100
SmallNatural(n) == Natural(<<n % 10, n \div 10>>)

\* the natural of the digits of a base that is a power of two, bits a digit,
\* from the digit i on; acc is the natural of the digits before
RECURSIVE PowerOfTwoDigits(_, _, _, _)
PowerOfTwoDigits(ds, i, bits, acc) ==
    IF i > Len(ds) THEN acc
    ELSE The({The({PowerOfTwoDigits(ds, i + 1, bits, sum) : sum \in {Add(upper, digit)}})
              : upper \in {TwiceN(acc, bits)}, digit \in {SmallNatural(HexVal(ds[i]))}})

\* the digits of a base that is a power of two, bits a digit
DigitsOfRadix(bits) ==
    {HexChars[i] : i \in 1..Pow2(bits)} \cup {LowerHexChars[i] : i \in 1..Pow2(bits)}

\* the Number of the digits of a base that is a power of two, or NaN
RadixLiteral(rest, bits) ==
    IF \A i \in 1..Len(rest) : rest[i] \in DigitsOfRadix(bits)
    THEN The({Decimal(1, Reverse(n), 0) : n \in {PowerOfTwoDigits(rest, 1, bits, <<>>)}})
    ELSE NaN

\* the Number of a decimal literal with its sign, or NaN
DecimalLiteral(s) ==
    LET a == IF CharAt(s, 1) \in {"+", "-"} THEN 2 ELSE 1
        d0(c) == IF CharAt(s, c + 1) \in {"+", "-"} THEN c + 2 ELSE c + 1
    IN  The({The({The({IF /\ d = Len(s) + 1
                          /\ b > a \/ c > b + 1
                          /\ CharAt(s, c) \in {"e", "E"} => d > d0(c)
                       THEN NumberOf(s, 1, a, b, c, d0(c), d)
                       ELSE NaN
                       : d \in {ExponentEnd(s, c)}})
                  : c \in {IF CharAt(s, b) = "." THEN SkipAll(s, b + 1, DecimalDigit) ELSE b}})
             : b \in {SkipAll(s, a, DecimalDigit)}})

\* the Number of a text without white space at its ends
StringNumericLiteral(s) ==
    LET sign == IF CharAt(s, 1) = "-" THEN 0 - 1 ELSE 1
        a == IF CharAt(s, 1) \in {"+", "-"} THEN 2 ELSE 1
        radix == IF Len(s) > 2 /\ s[1] = "0"
                 THEN (CASE s[2] \in {"x", "X"} -> 4
                         [] s[2] \in {"o", "O"} -> 3
                         [] s[2] \in {"b", "B"} -> 1
                         [] OTHER -> 0)
                 ELSE 0
    IN  IF s = <<>> THEN NumberValue(1, <<>>, 0)
        ELSE IF SubSeq(s, a, Len(s)) = <<"I", "n", "f", "i", "n", "i", "t", "y">>
        THEN Infinity(sign)
        ELSE IF radix > 0 THEN The({RadixLiteral(rest, radix) : rest \in {SubSeq(s, 3, Len(s))}})
        ELSE DecimalLiteral(s)

\* StringToNumber
StringToNumber(chars) ==
    The({StringNumericLiteral(s) : s \in {The({trim(all) : all \in {chars}})}})

ToNumber(v) ==
    The({CASE p.kind = "undefined" -> NaN
           [] p.kind = "null" -> NumberValue(1, <<>>, 0)
           [] p.kind = "boolean" ->
                  IF p.bool THEN NumberValue(1, <<1>>, 0) ELSE NumberValue(1, <<>>, 0)
           [] p.kind = "number" -> p
           [] p.kind = "string" -> StringToNumber(p.chars)
           [] p.kind = "TypeError" -> TypeError
         : p \in {ToPrimitive(v)}})

\* a * 2^k as digits * 10^exp
TimesPowerOfTwo(a, k) ==
    IF k >= 0 THEN [digits |-> TwiceN(a, k), exp |-> 0]
    ELSE [digits |-> FiveN(a, 0 - k), exp |-> k]

\* the value of a finite Number as digits * 10^exp, the units first
ExactOf(v) ==
    IF v.digits = <<>> THEN [digits |-> <<>>, exp |-> 0]
    ELSE IF Len(v.digits) <= 15 /\ v.exp >= 0 /\ Len(v.digits) + v.exp <= 15
    THEN [digits |-> Reverse(v.digits), exp |-> v.exp]
    ELSE The({The({TimesPowerOfTwo(m, double.e) : m \in {double.m}})
              : double \in {The({DoubleOf(r, v.exp) : r \in {Reverse(v.digits)}})}})

\* the sum of the finite values a and b, with the signs sa and sb
FiniteSum(sa, a, sb, b) ==
    LET exp == IF a.exp < b.exp THEN a.exp ELSE b.exp
    IN  The({The({Decimal(sum.sign, Reverse(sum.digits), exp)
                  : sum \in {SignedSum(sa, da, sb, db)}})
             : da \in {Shift(a.digits, a.exp - exp)}, db \in {Shift(b.digits, b.exp - exp)}})

\* Number::add
NumberAdd(x, y) ==
    IF x = NaN \/ y = NaN THEN NaN
    ELSE IF "infinite" \in DOMAIN x
    THEN (IF "infinite" \in DOMAIN y /\ x.sign /= y.sign THEN NaN ELSE x)
    ELSE IF "infinite" \in DOMAIN y THEN y
    ELSE The({FiniteSum(x.sign, a, y.sign, b) : a \in {ExactOf(x)}, b \in {ExactOf(y)}})

\* a + b, or the TypeError of the conversion of an operand
Plus(a, b) ==
    The({IF pa.kind = "TypeError" \/ pb.kind = "TypeError" THEN TypeError
         ELSE IF pa.kind = "string" \/ pb.kind = "string"
         THEN StringValue(ToString(pa) \o ToString(pb))
         ELSE The({NumberAdd(x, y) : x \in {ToNumber(pa)}, y \in {ToNumber(pb)}})
         : pa \in {ToPrimitive(a)}, pb \in {ToPrimitive(b)}})

\* a > 0: true or false, or the TypeError of the conversion of a
GreaterThanZero(a) ==
    The({IF n = TypeError THEN TypeError
         ELSE BooleanValue(n /= NaN /\ n.sign = 1 /\ n /= NumberValue(1, <<>>, 0))
         : n \in {ToNumber(a)}})

\* a || b
Or(a, b) == IF ToBoolean(a) THEN a ELSE b

\* a ?? b
Nullish(a, b) == IF a.kind \in {"undefined", "null"} THEN b ELSE a

\* object.name, for an object that is neither undefined nor null
Get(object, name) ==
    IF object.kind = "object" /\ \E i \in 1..Len(object.keys) : object.keys[i] = name
    THEN object.values[CHOOSE i \in 1..Len(object.keys) : object.keys[i] = name]
    ELSE Undefined

\* the reactive state of the page
Page ==
    [status |-> status, streamPhase |-> streamPhase, streamEvents |-> streamEvents,
     streamTotal |-> streamTotal, streamSucceeded |-> streamSucceeded,
     streamFailed |-> streamFailed, streamRemaining |-> streamRemaining,
     streamAbort |-> streamAbort]

SetPage(p) ==
    /\ status' = p.status
    /\ streamPhase' = p.streamPhase
    /\ streamEvents' = p.streamEvents
    /\ streamTotal' = p.streamTotal
    /\ streamSucceeded' = p.streamSucceeded
    /\ streamFailed' = p.streamFailed
    /\ streamRemaining' = p.streamRemaining
    /\ streamAbort' = p.streamAbort

\* the first callback of handleSubmit.  event.type of null throws a
\* TypeError behind the push; downloadUserVideosStream catches it.
onEvent(p, event) ==
    LET a == [p EXCEPT !.streamEvents = Append(@, event)]
        is(word) == Get(event, Word_type) = StringValue(word)
        total == Get(event, Word_total)
        succeeded_so_far == Get(event, Word_succeeded_so_far)
        remaining == Get(event, Word_remaining)
    IN  IF event = Null THEN a
        ELSE CASE is(Word_extracting) -> [a EXCEPT !.streamPhase = "extracting"]
          [] is(Word_extracted) ->
                 [a EXCEPT !.streamPhase = "downloading",
                           !.streamTotal = Or(total, Zero),
                           !.streamRemaining = Or(total, Zero)]
          [] is(Word_downloading) ->
                 [a EXCEPT !.streamSucceeded =
                               IF succeeded_so_far /= Undefined THEN succeeded_so_far ELSE @,
                           !.streamRemaining =
                               IF remaining /= Undefined THEN remaining ELSE @]
          [] is(Word_downloaded) ->
                 \* an exception of streamSucceeded.value + 1 or of
                 \* streamFailed.value++ ends the callback before an assignment
                 IF ToBoolean(Get(event, Word_success))
                 THEN The({IF count = TypeError THEN a
                           ELSE [a EXCEPT !.streamSucceeded = count,
                                          !.streamRemaining = Nullish(remaining, @)]
                           : count \in {Nullish(succeeded_so_far,
                                                Plus(a.streamSucceeded,
                                                     NumberValue(1, <<1>>, 0)))}})
                 ELSE IF ToBoolean(Get(event, Word_permanently_failed))
                 THEN The({IF old = TypeError THEN a
                           ELSE [a EXCEPT !.streamFailed =
                                              NumberAdd(old, NumberValue(1, <<1>>, 0)),
                                          !.streamRemaining = Nullish(remaining, @)]
                           : old \in {ToNumber(a.streamFailed)}})
                 ELSE a
          [] is(Word_done) ->
                 \* an exception of the comparison ends the callback behind
                 \* the three assignments before it
                 The({The({IF positive = TypeError THEN counted
                           ELSE [counted EXCEPT
                                    !.status = IF positive.bool THEN "success" ELSE "error",
                                    !.streamAbort = NoCall]
                           : positive \in {GreaterThanZero(Or(Get(event, Word_succeeded), Zero))}})
                      : counted \in {[a EXCEPT
                                        !.streamPhase = "done",
                                        !.streamSucceeded = Or(Get(event, Word_succeeded), Zero),
                                        !.streamFailed = Or(Get(event, Word_failed), Zero)]}})
          [] is(Word_error) ->
                 [a EXCEPT !.streamPhase = "error", !.status = "error",
                           !.streamAbort = NoCall]
          [] OTHER -> a

RECURSIVE onEvents(_, _)
onEvents(p, evs) ==
    IF evs = <<>> THEN p
    ELSE The({onEvents(after, Tail(evs)) : after \in {onEvent(p, Head(evs))}})

\* the second callback of handleSubmit
onError(p) ==
    [p EXCEPT !.status = "error", !.streamPhase = "error", !.streamAbort = NoCall]

resetStreamState(p) ==
    [p EXCEPT !.streamEvents = <<>>, !.streamPhase = "", !.streamTotal = Zero,
              !.streamSucceeded = Zero, !.streamFailed = Zero, !.streamRemaining = Zero,
              !.streamAbort = NoCall]

\* The form is submitted with a URL: of a user's page (profile) or of one video.
\* The submit button is disabled while status is 'loading'.  A controller that
\* streamAbort holds is aborted.
handleSubmit(profile) ==
    /\ status /= "loading"
    /\ \E i \in Calls :
           /\ phase[i] = "none"
           /\ \A k \in Calls : k < i => phase[k] /= "none"
           /\ aborted' = IF streamAbort /= NoCall
                         THEN [aborted EXCEPT ![streamAbort] = TRUE] ELSE aborted
           /\ IF profile
              THEN /\ SetPage([resetStreamState(Page) EXCEPT
                                   !.status = "loading", !.streamPhase = "starting",
                                   !.streamAbort = i])
                   /\ phase' = [phase EXCEPT ![i] = "fetching"]
              ELSE /\ SetPage([resetStreamState(Page) EXCEPT !.status = "loading"])
                   /\ phase' = [phase EXCEPT ![i] = "posting"]
    /\ UNCHANGED <<response, rpos, decoder, buffer, delivered>>

\* the call i has settled: its reader, decoder and buffer are gone
Settled(i) ==
    /\ phase' = [phase EXCEPT ![i] = "settled"]
    /\ response' = [response EXCEPT ![i] = NoResponse]
    /\ rpos' = [rpos EXCEPT ![i] = 0]
    /\ decoder' = [decoder EXCEPT ![i] = <<>>]
    /\ buffer' = [buffer EXCEPT ![i] = <<>>]
    /\ delivered' = [delivered EXCEPT ![i] = <<>>]

\* downloadVideo returns (success or not) or throws
DownloadReturns(i, success) ==
    /\ phase[i] = "posting"
    /\ phase' = [phase EXCEPT ![i] = "posted"]
    /\ SetPage([Page EXCEPT !.status = IF success THEN "success" ELSE "error"])
    /\ UNCHANGED <<response, rpos, decoder, buffer, aborted, delivered>>

\* A controller is aborted only by a submission made while streamAbort holds
\* it.  Every callback that ends 'loading' clears streamAbort and the form
\* cannot be submitted while status is 'loading', so within Calls no
\* controller is aborted and the rejection of an aborted fetch or read has
\* no step here.

\* fetch resolves with an OK response
FetchOk(i, r) ==
    /\ phase[i] = "fetching"
    /\ ~aborted[i]
    /\ phase' = [phase EXCEPT ![i] = "reading"]
    /\ response' = [response EXCEPT ![i] = r]
    /\ UNCHANGED <<page, rpos, decoder, buffer, aborted, delivered>>

\* fetch resolves with a response that is not OK: its body is awaited
FetchNotOk(i) ==
    /\ phase[i] = "fetching"
    /\ ~aborted[i]
    /\ phase' = [phase EXCEPT ![i] = "error_body"]
    /\ UNCHANGED <<page, response, rpos, decoder, buffer, aborted, delivered>>

\* response.json() settles, a rejection gives the default detail: onError
ErrorBody(i) ==
    /\ phase[i] = "error_body"
    /\ Settled(i)
    /\ SetPage(onError(Page))
    /\ UNCHANGED aborted

\* fetch rejects for want of a connection: onError
FetchFails(i) ==
    /\ phase[i] = "fetching"
    /\ ~aborted[i]
    /\ Settled(i)
    /\ SetPage(onError(Page))
    /\ UNCHANGED aborted

\* reader.read() hands out the next n bytes: one turn of the loop
Read(i, n) ==
    /\ phase[i] = "reading"
    /\ ~aborted[i]
    /\ n \in ReadSizes(Len(Body(i)) - rpos[i])
    /\ \E decoded \in {decode(decoder[i], SubSeq(Body(i), rpos[i] + 1, rpos[i] + n))} :
       \E parts \in {split(buffer[i] \o decoded.out)} :
       \E evs \in {EventsOf(Popped(parts))} :
       \E after \in {onEvents(Page, evs)} :
           /\ decoder' = [decoder EXCEPT ![i] = decoded.pending]
           /\ buffer' = [buffer EXCEPT ![i] = pop(parts)]
           /\ delivered' = [delivered EXCEPT ![i] = @ \o evs]
           /\ SetPage(after)
    /\ rpos' = [rpos EXCEPT ![i] = @ + n]
    /\ UNCHANGED <<phase, response, aborted>>

\* reader.read() reports the end of the body (the loop is left, no callback)
\* or rejects with the connection broken (onError)
ReadEnd(i) ==
    /\ phase[i] = "reading"
    /\ ~aborted[i]
    /\ rpos[i] = Len(Body(i))
    /\ Settled(i)
    /\ IF response[i].fails THEN SetPage(onError(Page)) ELSE UNCHANGED page
    /\ UNCHANGED aborted

ClientInit ==
    /\ turns = {}
    /\ text = [g \in Groups |-> <<>>]
    /\ pos = [g \in Groups |-> 0]
    /\ state = [g \in Groups |-> "AWAITING_FIRST_TOKEN"]
    /\ sentence_id = [g \in Groups |-> NoSentence]
    /\ current_sentence = [g \in Groups |-> <<>>]
    /\ events = [g \in Groups |-> <<>>]
    /\ bubbles = [g \in Groups |-> <<>>]
    /\ tts_tasks = [g \in Groups |-> <<>>]
    /\ tts_queue = <<>>
    /\ tts_running = {}
    /\ tts_semaphore = TTS_CONCURRENCY
    /\ unyielded = [g \in Groups |-> <<>>]
    /\ yielded = [g \in Groups |-> 0]
    /\ ClientIdle

ClientNext ==
    \/ \E profile \in BOOLEAN : handleSubmit(profile) /\ UNCHANGED engine
    \/ \E i \in Calls : \E success \in BOOLEAN :
           DownloadReturns(i, success) /\ UNCHANGED engine
    \/ \E i \in Calls : \E r \in Responses : FetchOk(i, r) /\ UNCHANGED engine
    \/ \E i \in Calls : FetchNotOk(i) /\ UNCHANGED engine
    \/ \E i \in Calls : ErrorBody(i) /\ UNCHANGED engine
    \/ \E i \in Calls : FetchFails(i) /\ UNCHANGED engine
    \/ \E i \in Calls : \E n \in ReadSizes(Len(Body(i)) - rpos[i]) :
           Read(i, n) /\ UNCHANGED engine
    \/ \E i \in Calls : ReadEnd(i) /\ UNCHANGED engine

ClientSpec == ClientInit /\ [][ClientNext]_vars

(***************************************************************************)
(* Reading the event stream.                                               *)
(***************************************************************************)
\* the positions of the stream of g that hold an event of one of the types
\* tagged with sid
At(g, types, sid) ==
    {i \in 1..Len(events[g]) : events[g][i].type \in types /\ events[g][i].sid = sid}

\* the positions of the stream of g that hold an event of one of the types
Of(g, types) == {i \in 1..Len(events[g]) : events[g][i].type \in types}

\* the sentence ids of the events of one type, in emission order
Sids(g, type) ==
    LET es == SelectSeq(events[g], LAMBDA e : e.type = type)
    IN  [i \in 1..Len(es) |-> es[i].sid]

\* the bubbles of g that have been finalized
Finalized(g) == {events[g][i].sid : i \in Of(g, {"sentence_end"})}

\* the bubbles of g that have been announced
Announced(g) == {events[g][i].sid : i \in Of(g, {"message_start"})}

\* the per-bubble results of synthesis on the stream of g
Results(g) == {i \in Of(g, {"audio", "error"}) : events[g][i].sid /= NoSentence}

\* the terminal events on the stream of g
TurnErrors(g) == At(g, {"error"}, NoSentence)
Terminals(g) == Of(g, {"done"}) \cup TurnErrors(g)

\* the message_start, token and sentence_end events of the chunks g has taken:
\* those its generator has yielded and those it has still to yield
Taken(g) ==
    EmitAll(SelectSeq(events[g],
                      LAMBDA e : e.type \in {"message_start", "token", "sentence_end"}),
            unyielded[g])

IsPrefix(a, b) == Len(a) <= Len(b) /\ SubSeq(b, 1, Len(a)) = a

\* the bubbles as the token events of the chunks g has taken build them
Shown(g) == DeliverAll(bubbles[g], unyielded[g])

\* the sentence ids of the events of one type among them, in order
TakenSids(g, type) ==
    LET es == SelectSeq(Taken(g), LAMBDA e : e.type = type)
    IN  [i \in 1..Len(es) |-> es[i].sid]

(***************************************************************************)
(* C1  Alignment invariant: for every finalized bubble, whatever the way  *)
(* the text is cut into chunks, the token payloads tagged with the bubble, *)
(* concatenated in emission order, are exactly the text submitted to the   *)
(* bubble's synthesis job.                                                 *)
(***************************************************************************)
C1_Alignment ==
    \A g \in turns : \A sid \in Finalized(g) :
        /\ sid + 1 <= Len(tts_tasks[g])
        /\ sid + 1 <= Len(bubbles[g])
        /\ bubbles[g][sid + 1] = tts_tasks[g][sid + 1].text

(***************************************************************************)
(* C2  Serialization: at most one synthesis job is in the backend call at  *)
(* any time, over all bubbles and all turns sharing the gate; a job is     *)
(* admitted only when every job admitted before it has left the call.      *)
(***************************************************************************)
C2_Serialization ==
    /\ Cardinality(tts_running) <= 1
    /\ Cardinality({j \in Groups \X (0..(max_bubbles - 1)) :
                       /\ j[2] + 1 <= Len(tts_tasks[j[1]])
                       /\ tts_tasks[j[1]][j[2] + 1].status = "running"}) <= 1
    /\ tts_semaphore >= 0

\* a job of one turn is in the backend call while a job of the other turn and
\* a second one wait
C2_Witness ==
    /\ \E j \in tts_running : j[1] = "g1"
    /\ Len(tts_queue) >= 2
    /\ \E i \in 1..Len(tts_queue) : tts_queue[i][1] = "g2"

(***************************************************************************)
(* C3  Density invariant: the sentence ids announced by message_start in a *)
(* group are 0, 1, ..., k in this order, each once, with k + 1 at most the *)
(* bubble cap.                                                             *)
(***************************************************************************)
C3_Density ==
    \A g \in turns :
        /\ \A i \in 1..Len(Sids(g, "message_start")) :
               Sids(g, "message_start")[i] = i - 1
        /\ Len(Sids(g, "message_start")) <= max_bubbles

\* the cap is reached: bubbles 0..max_bubbles-1 are announced
C3_Witness ==
    Announced("g1") = 0..(max_bubbles - 1)

(***************************************************************************)
(* C4  Cap enforcement: a stream that crosses more than max_bubbles - 1    *)
(* boundaries gets exactly max_bubbles bubbles over the whole turn.  Never *)
(* more than max_bubbles bubbles are created; below the cap every boundary *)
(* the detector finds in the buffer opens one more bubble; once the last   *)
(* bubble is open, every character consumed afterwards is appended to it   *)
(* and it is not split again: it is finalized only when the producer has   *)
(* ended.                                                                  *)
(***************************************************************************)
RECURSIVE TotalLen(_)
TotalLen(seqs) == IF seqs = <<>> THEN 0 ELSE Len(Head(seqs)) + TotalLen(Tail(seqs))

\* the boundaries a text crosses: the detector finds one in the text, and
\* the others in what is left behind it
RECURSIVE Crossed(_)
Crossed(t) ==
    LET boundary == find_sentence_boundary(t, min_len)
    IN  IF boundary < 0 THEN 0 ELSE 1 + Crossed(RestOf(t, boundary))

C4_Bubbles ==
    \A g \in turns :
        /\ Len(bubbles[g]) <= max_bubbles
        /\ Cardinality(Announced(g)) <= max_bubbles
        \* a turn that ends with fewer bubbles has crossed no more boundaries
        \* than it has opened bubbles behind
        /\ (state[g] \in {"FINALIZING", "DONE"}
                /\ (Len(bubbles[g]) /= max_bubbles
                        \/ Announced(g) /= 0..(max_bubbles - 1))) =>
              Crossed(text[g]) <= max_bubbles - 1
        /\ Len(bubbles[g]) = max_bubbles =>
              /\ bubbles[g][max_bubbles] =
                     SubSeq(text[g],
                            TotalLen(SubSeq(bubbles[g], 1, max_bubbles - 1)) + 1,
                            pos[g])
              /\ state[g] = "STREAMING" => (max_bubbles - 1) \notin Finalized(g)

\* a chunk that completes a boundary in the buffer of a bubble below the cap
\* opens the next bubble
C4_Opens ==
    \A g \in turns :
        (/\ state[g] = "STREAMING"
         /\ pos'[g] > pos[g]
         /\ sentence_id[g] + 1 < max_bubbles
         /\ find_sentence_boundary(current_sentence[g]
                                       \o SubSeq(text[g], pos[g] + 1, pos'[g]),
                                   min_len) >= 0)
            => sentence_id'[g] = sentence_id[g] + 1

C4_CapEnforced == []C4_Bubbles /\ [][C4_Opens]_vars

\* the turn is done with exactly max_bubbles bubbles, and the last one holds
\* text in which the detector finds a further boundary
C4_Witness ==
    /\ state["g1"] = "DONE"
    /\ Len(bubbles["g1"]) = max_bubbles
    /\ Announced("g1") = 0..(max_bubbles - 1)
    /\ find_sentence_boundary(bubbles["g1"][max_bubbles], min_len) >= 0

(***************************************************************************)
(* C5  Every audio event and every synthesis error event is tagged with a  *)
(* bubble whose message_start is earlier on the stream, whenever the job   *)
(* resolves.                                                               *)
(***************************************************************************)
C5_ResultAfterAnnounce ==
    \A g \in turns : \A i \in Results(g) :
        \E k \in At(g, {"message_start"}, events[g][i].sid) : k < i

\* the job of bubble 0 resolved while bubble 1 was streaming and the job of
\* bubble 1 failed: the audio of bubble 0 and the error of bubble 1 are on the
\* stream, behind the events of both bubbles
C5_Witness ==
    /\ \E i \in At("g1", {"audio"}, 0) : \E k \in At("g1", {"sentence_end"}, 1) : k < i
    /\ \E i \in At("g1", {"error"}, 1) : \E k \in At("g1", {"message_start"}, 1) : k < i

(***************************************************************************)
(* C6  Per-bubble order: message_start, then the tokens, then              *)
(* sentence_end, then audio or synthesis error: no token of a bubble       *)
(* before its message_start or after its sentence_end, no result of a      *)
(* bubble before its sentence_end.                                         *)
(***************************************************************************)
C6_BubbleOrder ==
    \A g \in turns : \A i \in 1..Len(events[g]) :
        LET e == events[g][i]
        IN  /\ e.type = "token" =>
                /\ \E k \in At(g, {"message_start"}, e.sid) : k < i
                /\ \A k \in At(g, {"sentence_end"}, e.sid) : i < k
            /\ e.type = "sentence_end" =>
                \E k \in At(g, {"message_start"}, e.sid) : k < i
            /\ i \in Results(g) =>
                \E k \in At(g, {"sentence_end"}, e.sid) : k < i

\* bubble 0 went through all of message_start, token, sentence_end, error
C6_Witness ==
    /\ At("g1", {"message_start"}, 0) /= {}
    /\ At("g1", {"token"}, 0) /= {}
    /\ At("g1", {"sentence_end"}, 0) /= {}
    /\ At("g1", {"error"}, 0) /= {}
    /\ At("g1", {"token"}, 1) /= {}

(***************************************************************************)
(* C7  Cross-bubble order: the message_start events of a group carry       *)
(* strictly increasing ids, so do its sentence_end events, and the         *)
(* sentence_end of bubble n precedes the message_start of bubble n + 1.    *)
(***************************************************************************)
Increasing(ids) == \A i \in 1..Len(ids) : \A k \in 1..Len(ids) : i < k => ids[i] < ids[k]

C7_CrossBubbleOrder ==
    \A g \in turns :
        /\ Increasing(Sids(g, "message_start"))
        /\ Increasing(Sids(g, "sentence_end"))
        /\ \A i \in Of(g, {"message_start"}) :
               events[g][i].sid > 0 =>
                   \E k \in At(g, {"sentence_end"}, events[g][i].sid - 1) : k < i

\* three bubbles were opened and closed one after the other
C7_Witness ==
    /\ Len(Sids("g1", "message_start")) >= 3
    /\ Len(Sids("g1", "sentence_end")) >= 3

(***************************************************************************)
(* C8  Terminal liveness: when every producer eventually yields, ends or   *)
(* fails and every admitted job returns, fails or times out, the stream of *)
(* every turn eventually holds a done event or a turn-level error event,   *)
(* whether the producer ends, fails or the turn is canceled.               *)
(***************************************************************************)
C8_TerminalLiveness == <>(\A g \in turns : Terminals(g) /= {})

\* one turn is done after a synthesis timeout, the other one was canceled
C8_Witness ==
    /\ Of("g1", {"done"}) /= {}
    /\ \E i \in 1..Len(tts_tasks["g1"]) : tts_tasks["g1"][i].status = "timeout"
    /\ \E i \in TurnErrors("g2") : events["g2"][i].message = "canceled"

(***************************************************************************)
(* C9  done is emitted only after every synthesis job submitted for the    *)
(* group has resolved, and after exactly one audio or synthesis error      *)
(* event has been emitted for each of those jobs.                          *)
(*                                                                         *)
(* The sources settle a part of it.  For a task that ended without audio   *)
(* they show the log line "No audio for sentence N" and no event, and they *)
(* do not show the code that would yield an error event: NoAudio has both  *)
(* outcomes, and the count of one event for a failed job is open.  What    *)
(* holds whichever it is: done comes after every job has resolved, a job   *)
(* that succeeded has exactly one audio event before done, and a job that  *)
(* failed has no audio event and at most one error event, before done.     *)
(***************************************************************************)
C9_DoneAfterResolved ==
    \A g \in turns : \A d \in Of(g, {"done"}) :
        \A n \in 1..Len(tts_tasks[g]) :
            /\ tts_tasks[g][n].status \in {"ok", "error", "timeout"}
            /\ Cardinality(At(g, {"audio", "error"}, n - 1)) <= 1
            /\ tts_tasks[g][n].status = "ok" <=> Cardinality(At(g, {"audio"}, n - 1)) = 1
            /\ \A i \in At(g, {"audio", "error"}, n - 1) : i < d

\* done follows four jobs, the first of which failed without an event
C9_SilentFailure ==
    /\ Of("g1", {"done"}) /= {}
    /\ Len(tts_tasks["g1"]) = max_bubbles
    /\ tts_tasks["g1"][1].status = "error"
    /\ At("g1", {"audio", "error"}, 0) = {}
    /\ tts_tasks["g1"][max_bubbles].status = "ok"

(***************************************************************************)
(* C10  Synthesis-error isolation: a job that times out or fails puts one  *)
(* error event tagged with its bubble on the stream and does not end the   *)
(* turn, and done reports as succeededCount and failedCount the numbers of *)
(* jobs that succeeded and failed.                                         *)
(*                                                                         *)
(* The sources settle a part of it.  Whether the failed job has an error   *)
(* event is open (NoAudio), and the fields of done are those of the        *)
(* specification: the sources show a done event without counts.  What      *)
(* holds whichever it is: a job that failed has no audio event, an error   *)
(* event of a bubble is that of a failed job of the bubble, and the only   *)
(* turn-level errors are those of the producer and of cancellation.        *)
(***************************************************************************)
C10_TurnGoesOn ==
    \A g \in turns :
        /\ \A n \in 1..Len(tts_tasks[g]) :
               tts_tasks[g][n].status \in {"error", "timeout"} =>
                   /\ Cardinality(At(g, {"error"}, n - 1)) <= (IF n <= yielded[g] THEN 1 ELSE 0)
                   /\ At(g, {"audio"}, n - 1) = {}
                   /\ state[g] = "DONE" => n <= yielded[g]
        /\ \A i \in Results(g) :
               events[g][i].type = "error" =>
                   /\ events[g][i].sid + 1 <= Len(tts_tasks[g])
                   /\ tts_tasks[g][events[g][i].sid + 1].status = events[g][i].message
        /\ \A i \in TurnErrors(g) : events[g][i].message \in {"producer", "canceled"}
        /\ TurnErrors(g) /= {} <=> state[g] \in {"FAILED", "CANCELED"}

\* the job of bubble 0 timed out, the job of bubble 1 succeeded and the turn
\* is done
C10_DoneAfterTimeout ==
    /\ Len(tts_tasks["g1"]) >= 2
    /\ tts_tasks["g1"][1].status = "timeout"
    /\ At("g1", {"audio"}, 1) /= {}
    /\ Of("g1", {"done"}) /= {}

(***************************************************************************)
(* C11  Producer error: the failure of the producer puts a turn-level      *)
(* error event on the stream at once, whatever jobs of the group are       *)
(* waiting or in the backend call; after it the stream of the group gets   *)
(* no sentence_end, message_start, token or done event, only the audio and *)
(* synthesis error events of jobs already submitted.                       *)
(***************************************************************************)
ProducerErrors(g) == {i \in TurnErrors(g) : events[g][i].message = "producer"}

C11_ProducerError ==
    \A g \in turns :
        /\ state[g] = "FAILED" => ProducerErrors(g) /= {}
        /\ \A i \in ProducerErrors(g) :
               \A k \in 1..Len(events[g]) : k > i => k \in Results(g)

\* the producer failed while the job of bubble 0 was not yet resolved and
\* bubble 1 was open; the audio of bubble 0 followed the error
C11_Witness ==
    /\ state["g1"] = "FAILED"
    /\ sentence_id["g1"] = 1
    /\ \E i \in ProducerErrors("g1") : \E k \in At("g1", {"audio"}, 0) : k > i

(***************************************************************************)
(* C12  Cancellation: once a turn is canceled no further chunk of its      *)
(* producer is consumed and no further token is emitted for it; the stream *)
(* holds a terminal event (the cancellation marker); and the admission     *)
(* slot held or awaited by the jobs of the turn is eventually free again,  *)
(* so that the jobs of the other turns are admitted.                       *)
(***************************************************************************)
CancelMarkers(g) == {i \in TurnErrors(g) : events[g][i].message = "canceled"}

C12_Cancellation ==
    /\ [][\A g \in Groups :
              state[g] = "CANCELED" =>
                  /\ state'[g] = "CANCELED"
                  /\ pos'[g] = pos[g]
                  /\ bubbles'[g] = bubbles[g]
                  /\ Of(g, {"token"})' = Of(g, {"token"})]_vars
    /\ [](\A g \in turns :
              state[g] = "CANCELED" =>
                  /\ CancelMarkers(g) /= {}
                  /\ \A i \in CancelMarkers(g) :
                         \A k \in 1..Len(events[g]) : k > i => k \in Results(g))
    /\ \A g \in Groups :
           (g \in turns /\ state[g] = "CANCELED")
               ~> (/\ tts_running = {}
                   /\ tts_queue = <<>>
                   /\ tts_semaphore = TTS_CONCURRENCY)

\* one turn was canceled in the middle of a split, with events of the split
\* not yet yielded; its job has left the gate and the job of the other turn
\* went through the gate
C12_Witness ==
    /\ state["g1"] = "CANCELED"
    /\ pos["g1"] < Len(text["g1"])
    /\ unyielded["g1"] /= <<>>
    /\ Len(tts_tasks["g1"]) = 1
    /\ Resolved(tts_tasks["g1"][1])
    /\ Len(tts_tasks["g2"]) = 1
    /\ tts_tasks["g2"][1].status = "ok"

(***************************************************************************)
(* C13  FIFO admission: the job admitted to the backend call is the one    *)
(* that has waited longest; the waiting jobs keep their submission order;  *)
(* no job is admitted while a job submitted before it still waits.         *)
(***************************************************************************)
JobIds == Groups \X (0..(max_bubbles - 1))

C13_FIFO ==
    /\ [][\A j \in JobIds :
              (j \in tts_running' /\ j \notin tts_running) =>
                  /\ tts_queue /= <<>>
                  /\ j = Head(tts_queue)
                  /\ tts_queue' = Tail(tts_queue)]_vars
    /\ [][\/ tts_queue' = tts_queue
          \/ tts_queue /= <<>> /\ tts_queue' = Tail(tts_queue)
          \/ \E j \in JobIds : tts_queue' = Append(tts_queue, j)]_vars
    /\ [](\A g \in turns : \A i \in 1..Len(tts_tasks[g]) : \A k \in 1..Len(tts_tasks[g]) :
              (i < k /\ tts_tasks[g][i].status = "queued") =>
                  tts_tasks[g][k].status = "queued")

\* the job of the second turn is in the backend call, the first job of the
\* first turn has left it and the second job of the first turn waits
C13_Witness ==
    /\ tts_running = {<<"g2", 0>>}
    /\ tts_queue = <<<<"g1", 1>>>>
    /\ Resolved(tts_tasks["g1"][1])

(***************************************************************************)
(* C14  The timeout of a job is measured from its admission: a job         *)
(* resolves as timed out only while it is the admitted job and only when   *)
(* a full window has passed since its admission; the window of a waiting   *)
(* job does not run, however slow the jobs before it are.                  *)
(***************************************************************************)
C14_TimeoutFromAdmission ==
    /\ [][\A g \in Groups : \A i \in 1..Len(tts_tasks[g]) :
              LET before == tts_tasks[g][i]
                  after == tts_tasks'[g][i]
              IN  /\ (after.status = "timeout" /\ before.status /= "timeout") =>
                         /\ <<g, i - 1>> \in tts_running
                         /\ before.status = "running"
                         /\ before.elapsed = TimeoutTicks
                  /\ (before.status = "queued" /\ after.status = "running") =>
                         after.elapsed = 0
                  /\ (before.status = "running" /\ after.status = "running") =>
                         after.elapsed \in {before.elapsed, before.elapsed + 1}]_vars
    /\ [](\A g \in turns : \A i \in 1..Len(tts_tasks[g]) :
              tts_tasks[g][i].status = "queued" => tts_tasks[g][i].elapsed = 0)

\* the first job has timed out, the second one, which waited behind it, is in
\* the backend call with a part of its own window left, a third one waits
C14_Witness ==
    /\ Len(tts_tasks["g1"]) >= 3
    /\ tts_tasks["g1"][1].status = "timeout"
    /\ tts_tasks["g1"][2].status = "running"
    /\ tts_tasks["g1"][2].elapsed = TimeoutTicks - 1
    /\ tts_tasks["g1"][3].status = "queued"

(***************************************************************************)
(* C15  Boundary Detector result: for every text accumulated for the open  *)
(* bubble the detector returns the earliest match of the highest tier that *)
(* has a match and whose floor the text has reached, also when a lower     *)
(* tier has such a match at an earlier offset, and never a later match of  *)
(* that tier; it returns -1 when no tier has one.                          *)
(***************************************************************************)
\* the texts the detector may be given next: the open bubble's text with the
\* next chunk of the producer
Pending(g) ==
    {current_sentence[g] \o SubSeq(text[g], pos[g] + 1, pos[g] + n) :
         n \in {m \in {0} \cup ChunkSizes : pos[g] + m <= Len(text[g])}}

\* the offsets at which tier t matches
Offsets(buf, t) ==
    CASE t = 1 -> {i - 1 : i \in {k \in 1..Len(buf) : LIST_PATTERN(buf, k)}}
      [] t = 2 -> {i - 1 : i \in {k \in 2..Len(buf) : buf[k - 1] = NL /\ buf[k] = NL}}
      [] t = 3 -> {i - 1 : i \in {k \in 1..Len(buf) : buf[k] \in {"U+3002", "."}}}
      [] t = 4 -> {i - 1 : i \in {k \in 1..Len(buf) : buf[k] \in {"U+FF1B", "U+2026"}}}
      [] t = 5 -> {i - 1 : i \in {k \in 1..Len(buf) :
                                     buf[k] \in {"U+FF01", "U+FF1F", "!", "?"}}}
      [] t = 6 -> {i - 1 : i \in {k \in 1..Len(buf) : buf[k] = NL}}
      [] t = 7 -> {i - 1 : i \in {k \in 1..Len(buf) :
                                     buf[k] \in {"U+FF0C", "U+3001", "U+FF1A"}}}

\* the tiers that have a match in a text that has reached their floor
Qualifying(buf) ==
    {t \in 1..7 : Len(buf) >= <<8, 8, 20, 30, 80, 20, 80>>[t] /\ Offsets(buf, t) /= {}}

C15_DetectorResult ==
    \A g \in turns : \A buf \in Pending(g) :
        LET r == find_sentence_boundary(buf, min_len)
        IN  IF Qualifying(buf) = {} THEN r = -1
            ELSE LET top == Min(Qualifying(buf))
                 IN  /\ r \in Offsets(buf, top)
                     /\ \A o \in Offsets(buf, top) : r <= o

\* the text with two full stops reached the floor of the full stop together
\* with its paragraph break: the detector returned the paragraph break, behind
\* both stops, and the sentence was cut there
C15_Witness ==
    /\ text["g1"] = TextMixed
    /\ pos["g1"] = 22
    /\ Len(tts_tasks["g1"]) = 1
    /\ tts_tasks["g1"][1].text = SubSeq(TextMixed, 1, 22)
    /\ Cardinality(Offsets(tts_tasks["g1"][1].text, 3)) = 2
    /\ 3 \in Qualifying(tts_tasks["g1"][1].text)
    /\ find_sentence_boundary(tts_tasks["g1"][1].text, min_len) = 21

(***************************************************************************)
(* C16  Tier priority: a numbered-list line break and a paragraph break    *)
(* fire as soon as the accumulated text has min_len (8) characters,        *)
(* without the floors of 20, 30 or 80 of the lower tiers; "1. aa\n2. bb"   *)
(* (11 characters) is split at the newline before "2.".                    *)
(***************************************************************************)
C16_TierPriority ==
    /\ \A g \in turns : \A buf \in Pending(g) :
           Len(buf) >= 8 =>
               /\ Offsets(buf, 1) /= {} =>
                      find_sentence_boundary(buf, min_len) = Min(Offsets(buf, 1))
               /\ (Offsets(buf, 1) = {} /\ Offsets(buf, 2) /= {}) =>
                      find_sentence_boundary(buf, min_len) = Min(Offsets(buf, 2))
    /\ \A g \in turns :
           text[g] = TextList =>
               /\ TextList \in Pending(g) => find_sentence_boundary(TextList, min_len) = 5
               /\ Len(tts_tasks[g]) <= 2
               /\ Len(tts_tasks[g]) >= 1 =>
                      /\ Len(tts_tasks[g][1].text) = 6
                      /\ tts_tasks[g][1].text[6] = NL
                      /\ IsPrefix(<<"2", ".">>, current_sentence[g])
               /\ Len(tts_tasks[g]) = 2 => tts_tasks[g][2].text = SubSeq(TextList, 7, 11)

\* the whole list has been streamed and was cut behind the newline: the second
\* sentence is "2. bb"
C16_Witness ==
    /\ text["g1"] = TextList
    /\ pos["g1"] = Len(TextList)
    /\ Len(TextList) < 20
    /\ Len(tts_tasks["g1"]) = 2
    /\ tts_tasks["g1"][1].text = SubSeq(TextList, 1, 6)
    /\ tts_tasks["g1"][2].text = SubSeq(TextList, 7, 11)
    /\ Finalized("g1") = {0, 1}

(***************************************************************************)
(* C17  Exclamation protection: a text of less than 80 characters made of  *)
(* short exclamatory sentences, with no mark of a higher tier, is never    *)
(* split, however it is cut into chunks: the turn has the single bubble 0, *)
(* finalized only when the producer has ended.                             *)
(***************************************************************************)
Exclamatory(t) ==
    /\ Len(t) < 80
    /\ \E i \in 1..Len(t) : t[i] \in {"U+FF01", "U+FF1F", "!", "?"}
    /\ \A i \in 1..Len(t) : t[i] \in {"a", "U+FF01", "U+FF1F", "!", "?"}

C17_ExclamationProtection ==
    \A g \in turns :
        Exclamatory(text[g]) =>
            /\ \A buf \in Pending(g) : find_sentence_boundary(buf, min_len) = -1
            /\ Announced(g) \subseteq {0}
            /\ Len(bubbles[g]) <= 1
            /\ Len(tts_tasks[g]) <= 1
            /\ Finalized(g) /= {} =>
                   /\ Finalized(g) = {0}
                   /\ pos[g] = Len(text[g])
                   /\ state[g] \in {"FINALIZING", "DONE", "CANCELED"}
                   /\ bubbles[g] = <<text[g]>>

\* the three sentences were streamed and make up the one bubble of the turn
C17_Witness ==
    /\ text["g1"] = TextExclaim
    /\ Cardinality(Offsets(TextExclaim, 5)) = 3
    /\ state["g1"] = "DONE"
    /\ bubbles["g1"] = <<TextExclaim>>
    /\ Sids("g1", "sentence_end") = <<0>>

(***************************************************************************)
(* C18  Split step.  A chunk is appended while the open bubble is under    *)
(* the cap and the detector finds a boundary at offset k of the buffer:    *)
(* the chunk is cut at k + 1 - (length of the buffer before the append),   *)
(* the stream gets token (prefix, current id), sentence_end (current id),  *)
(* message_start (current id + 1), token (suffix, current id + 1) in this  *)
(* order, prefix and suffix make up the chunk, and the buffer of the new   *)
(* bubble is the suffix.                                                   *)
(*                                                                         *)
(* SplitStep(g) states it for the step of the turn g that takes the chunk,  *)
(* on the events the generator yields for the chunk.                       *)
(***************************************************************************)
SplitStep(g) ==
    LET chunk == SubSeq(text[g], pos[g] + 1, pos'[g])
        first == state[g] = "AWAITING_FIRST_TOKEN"
        sid == IF first THEN 0 ELSE sentence_id[g]
        old_len == Len(current_sentence[g])
        k == find_sentence_boundary(current_sentence[g] \o chunk, min_len)
        cut == k + 1 - old_len
        prefix == SubSeq(chunk, 1, cut)
        suffix == SubSeq(chunk, cut + 1, Len(chunk))
        stream == IF first THEN <<MessageStart(0)>> ELSE Taken(g)
        shown == IF first THEN <<>> ELSE Shown(g)[sid + 1]
    IN  (/\ pos'[g] > pos[g]
         /\ sid + 1 < max_bubbles
         /\ k >= 0) =>
            /\ sentence_id'[g] = sid + 1
            /\ cut \in 0..Len(chunk)
            /\ prefix \o suffix = chunk
            /\ Taken(g)' =
                   EmitAll(stream, <<Token(sid, prefix), SentenceEnd(sid),
                                     MessageStart(sid + 1), Token(sid + 1, suffix)>>)
            /\ Shown(g)' = SubSeq(Shown(g), 1, sid) \o <<shown \o prefix, suffix>>
            /\ current_sentence'[g] = suffix

C18_SplitStep == [][\A g \in Groups : SplitStep(g)]_vars

(***************************************************************************)
(* C19  At the cap the last bubble is not finalized in mid-stream: once    *)
(* bubble max_bubbles - 1 is open it gets no sentence_end and no synthesis *)
(* job before the producer has ended, whatever boundaries the text that    *)
(* arrives for it holds; every chunk is appended to it whole, as if the    *)
(* detector were never asked again.                                        *)
(***************************************************************************)
LastId == max_bubbles - 1

C19_NoSplitAtCap ==
    /\ [](\A g \in turns :
              /\ (sentence_id[g] = LastId /\ state[g] = "STREAMING") =>
                     /\ LastId \notin Finalized(g)
                     /\ Len(tts_tasks[g]) = LastId
              /\ LastId \in Finalized(g) =>
                     /\ pos[g] = Len(text[g])
                     /\ state[g] \in {"FINALIZING", "DONE", "CANCELED"})
    /\ [][\A g \in Groups :
              (sentence_id[g] = LastId /\ pos'[g] > pos[g]) =>
                  /\ sentence_id'[g] = LastId
                  /\ current_sentence'[g] =
                         current_sentence[g] \o SubSeq(text[g], pos[g] + 1, pos'[g])
                  /\ tts_tasks'[g] = tts_tasks[g]
                  /\ TakenSids(g, "sentence_end")' = TakenSids(g, "sentence_end")
                  /\ TakenSids(g, "message_start")' = TakenSids(g, "message_start")
                  /\ Shown(g)' = [Shown(g) EXCEPT ![max_bubbles] =
                                      @ \o SubSeq(text[g], pos[g] + 1, pos'[g])]]_vars

\* the last bubble is open, not finalized, and the text it has accumulated
\* holds a boundary the detector would return
C19_Witness ==
    /\ state["g1"] = "STREAMING"
    /\ sentence_id["g1"] = LastId
    /\ pos["g1"] < Len(text["g1"])
    /\ find_sentence_boundary(current_sentence["g1"], min_len) >= 0
    /\ Finalized("g1") = 0..(LastId - 1)

(***************************************************************************)
(* C20  Finalization is exactly-once: no bubble gets a second sentence_end *)
(* or a second message_start; when the producer has completed normally     *)
(* every bubble that was opened has exactly one sentence_end and one job,  *)
(* the bubble open at completion included, whatever its length; no bubble  *)
(* is removed, shortened or extended after its sentence_end.               *)
(***************************************************************************)
C20_FinalizedOnce ==
    /\ [](\A g \in turns : \A sid \in 0..LastId :
              /\ Cardinality(At(g, {"sentence_end"}, sid)) <= 1
              /\ Cardinality(At(g, {"message_start"}, sid)) <= 1)
    /\ [](\A g \in turns :
              state[g] \in {"FINALIZING", "DONE"} =>
                  /\ Finalized(g) = Announced(g)
                  /\ Len(tts_tasks[g]) = Cardinality(Announced(g))
                  /\ Len(bubbles[g]) = Cardinality(Announced(g))
                  /\ Announced(g) /= {} =>
                         tts_tasks[g][Len(tts_tasks[g])].text = current_sentence[g])
    /\ [][\A g \in Groups :
              /\ Announced(g) \subseteq Announced(g)'
              /\ Finalized(g) \subseteq Finalized(g)'
              /\ Len(bubbles'[g]) >= Len(bubbles[g])
              /\ \A i \in 1..Len(bubbles[g]) :
                     /\ IsPrefix(bubbles[g][i], bubbles'[g][i])
                     /\ (i - 1) \in Finalized(g) => bubbles'[g][i] = bubbles[g][i]]_vars

\* the producer has ended behind two characters of the second bubble: the
\* bubble, far shorter than min_len, is finalized and has its job
C20_Witness ==
    /\ text["g1"] = TextShort
    /\ state["g1"] = "FINALIZING"
    /\ bubbles["g1"] = <<Para(6), <<"b", "b">> >>
    /\ Sids("g1", "sentence_end") = <<0, 1>>
    /\ tts_tasks["g1"][2].text = <<"b", "b">>
    /\ Len(tts_tasks["g1"][2].text) < min_len

(***************************************************************************)
(* C21  One job per finalized bubble, no retry: every sentence_end comes   *)
(* with exactly one job, a bubble that is not finalized has none, and a    *)
(* job goes through the backend call at most once: it waits, is admitted,  *)
(* resolves, and is never admitted again, also after a timeout or an       *)
(* error of the backend.                                                   *)
(***************************************************************************)
InQueue(j) == \E i \in 1..Len(tts_queue) : tts_queue[i] = j

C21_OneJobNoRetry ==
    /\ [](\A g \in turns :
              /\ TakenSids(g, "sentence_end") = [i \in 1..Len(tts_tasks[g]) |-> i - 1]
              /\ Finalized(g) \subseteq {i - 1 : i \in 1..Len(tts_tasks[g])}
              /\ unyielded[g] = <<>> =>
                     Finalized(g) = {i - 1 : i \in 1..Len(tts_tasks[g])}
              /\ \A sid \in 0..LastId :
                     sid + 1 > Len(tts_tasks[g]) =>
                         ~InQueue(<<g, sid>>) /\ <<g, sid>> \notin tts_running)
    /\ [](\A i \in 1..Len(tts_queue) : \A k \in 1..Len(tts_queue) :
              tts_queue[i] = tts_queue[k] => i = k)
    /\ [](\A j \in JobIds :
              /\ InQueue(j) => tts_tasks[j[1]][j[2] + 1].status = "queued"
              /\ j \in tts_running => tts_tasks[j[1]][j[2] + 1].status = "running")
    /\ [][\A g \in Groups : \A i \in 1..Len(tts_tasks[g]) :
              LET before == tts_tasks[g][i].status
                  after == tts_tasks'[g][i].status
              IN  /\ before = "running" => after /= "queued"
                  /\ before \in {"ok", "error", "timeout"} => after = before]_vars

\* the first job timed out and stayed so while the second one went through
\* the backend call; nothing waits or runs any more
C21_Witness ==
    /\ Len(tts_tasks["g1"]) = 2
    /\ tts_tasks["g1"][1].status = "timeout"
    /\ tts_tasks["g1"][2].status = "error"
    /\ tts_queue = <<>>
    /\ tts_running = {}
    /\ Cardinality(Results("g1")) = 2
    /\ yielded["g1"] = 2

(***************************************************************************)
(* C22  The orchestrator never blocks on synthesis while streaming: as     *)
(* long as the producer has a chunk, the chunk can be taken and its token  *)
(* emitted, however many jobs wait or are in the backend call; only after  *)
(* producer completion does the turn wait for its jobs (done is held back  *)
(* until they have resolved).                                              *)
(***************************************************************************)
C22_NeverBlocks ==
    \A g \in turns :
        /\ (state[g] \in {"AWAITING_FIRST_TOKEN", "STREAMING"} /\ unyielded[g] /= <<>>) =>
               ENABLED Yield(g)
        /\ (state[g] \in {"AWAITING_FIRST_TOKEN", "STREAMING"} /\ unyielded[g] = <<>>
               /\ pos[g] < Len(text[g])) =>
               ENABLED OnToken(g, 1)
        /\ (state[g] \in {"AWAITING_FIRST_TOKEN", "STREAMING"} /\ unyielded[g] = <<>>
               /\ pos[g] = Len(text[g])) =>
               ENABLED OnProducerEnd(g)
        /\ state[g] \in {"AWAITING_FIRST_TOKEN", "STREAMING"} => yielded[g] = 0
        /\ (state[g] = "FINALIZING"
               /\ \E i \in 1..Len(tts_tasks[g]) : ~Resolved(tts_tasks[g][i])) =>
               ~ENABLED OnAllResolved(g)

\* the turn is streaming its fourth bubble with a chunk to come while one job
\* is in the backend call and two more wait
C22_Witness ==
    /\ state["g1"] = "STREAMING"
    /\ sentence_id["g1"] = LastId
    /\ pos["g1"] < Len(text["g1"])
    /\ Cardinality(tts_running) = 1
    /\ Len(tts_queue) = 2
    /\ unyielded["g1"] = <<>>
    /\ ENABLED OnToken("g1", 1)

(***************************************************************************)
(* C23  ProtocolViolation degradation: when the split position computed    *)
(* for a chunk lies outside the chunk, the split is dropped: the whole     *)
(* chunk is emitted as one token of the current bubble, the chunk          *)
(* finalizes and opens no bubble, and no error event is emitted for it.    *)
(***************************************************************************)
C23_DroppedSplit ==
    [][\A g \in Groups :
           LET chunk == SubSeq(text[g], pos[g] + 1, pos'[g])
               first == state[g] = "AWAITING_FIRST_TOKEN"
               sid == IF first THEN 0 ELSE sentence_id[g]
               old_len == Len(current_sentence[g])
               k == find_sentence_boundary(current_sentence[g] \o chunk, min_len)
               cut == k + 1 - old_len
               stream == IF first THEN <<MessageStart(0)>> ELSE Taken(g)
               shown == IF first THEN <<>> ELSE Shown(g)[sid + 1]
           IN  (/\ pos'[g] > pos[g]
                /\ sid + 1 < max_bubbles
                /\ k >= 0
                /\ cut \notin 0..Len(chunk)) =>
                   /\ sentence_id'[g] = sid
                   /\ current_sentence'[g] = current_sentence[g] \o chunk
                   /\ Taken(g)' = Emit(stream, Token(sid, chunk))
                   /\ Shown(g)' = SubSeq(Shown(g), 1, sid) \o <<shown \o chunk>>
                   /\ tts_tasks'[g] = tts_tasks[g]
                   /\ Of(g, {"error"})' = Of(g, {"error"})]_vars

(***************************************************************************)
(* C24  A chunk finalizes at most one bubble: a chunk adds at most one     *)
(* sentence_end, one job and, besides the message_start of bubble 0 that   *)
(* the first chunk brings, one message_start; after a split the suffix is  *)
(* the buffer of the new bubble as a whole, also when the detector would   *)
(* find a boundary in it.                                                  *)
(***************************************************************************)
C24_OneSplitPerChunk ==
    [][\A g \in Groups :
           pos'[g] > pos[g] =>
               LET opening == IF state[g] = "AWAITING_FIRST_TOKEN" THEN 1 ELSE 0
                   ends == Len(TakenSids(g, "sentence_end"))
                   starts == Len(TakenSids(g, "message_start"))
               IN  /\ Len(TakenSids(g, "sentence_end"))' <= ends + 1
                   /\ Len(TakenSids(g, "message_start"))' <= starts + opening + 1
                   /\ Len(TakenSids(g, "message_start"))' - starts - opening =
                          Len(TakenSids(g, "sentence_end"))' - ends
                   /\ Len(tts_tasks'[g]) <= Len(tts_tasks[g]) + 1
                   /\ sentence_id'[g] <= (IF opening = 1 THEN 0 ELSE sentence_id[g]) + 1
                   /\ Len(TakenSids(g, "sentence_end"))' = ends + 1 =>
                          IsPrefix(current_sentence'[g],
                                   SubSeq(text[g], pos'[g] - Len(current_sentence'[g]) + 1,
                                          pos'[g]))]_vars

\* a chunk of LongChunk characters held two paragraph breaks: it was cut at
\* the first one and the second one lies in the buffer of bubble 1
C24_Witness ==
    /\ text["g1"] = TextParagraphs
    /\ pos["g1"] = 6 + LongChunk
    /\ sentence_id["g1"] = 1
    /\ Len(tts_tasks["g1"]) = 1
    /\ bubbles["g1"][1] = Para(6)
    /\ Len(current_sentence["g1"]) = LongChunk - 2
    /\ find_sentence_boundary(current_sentence["g1"], min_len) >= 0

(***************************************************************************)
(* C25  Terminal exclusivity: the stream of a turn holds at most one       *)
(* terminal event, never both done and a turn-level error; done comes at   *)
(* most once and is the last event of the group.                           *)
(***************************************************************************)
C25_TerminalExclusive ==
    /\ [](\A g \in turns :
              /\ Cardinality(Terminals(g)) <= 1
              /\ Cardinality(Of(g, {"done"})) <= 1
              /\ ~(Of(g, {"done"}) /= {} /\ TurnErrors(g) /= {})
              /\ \A d \in Of(g, {"done"}) : d = Len(events[g]))
    /\ [][\A g \in Groups : Of(g, {"done"}) /= {} => events'[g] = events[g]]_vars

\* one turn is done, done being the last of its events, while the other one,
\* canceled while it waited for its job, holds the marker; its job has ended
C25_Witness ==
    /\ state["g1"] = "DONE"
    /\ events["g1"][Len(events["g1"])].type = "done"
    /\ Len(events["g1"]) >= 7
    /\ state["g2"] = "CANCELED"
    /\ pos["g2"] = Len(text["g2"])
    /\ Cardinality(Terminals("g2")) = 1
    /\ CancelMarkers("g2") /= {}
    /\ Len(tts_tasks["g2"]) = 1
    /\ Resolved(tts_tasks["g2"][1])

(***************************************************************************)
(* C26  Independence of concurrent turns: a step changes the bubbles, the  *)
(* allocator counter, the buffer and the message_start / token /           *)
(* sentence_end events of at most one turn, and what it makes of them      *)
(* depends on that turn's own session state and on the chunk only, so that *)
(* each turn streams what it streams when it runs alone on the same        *)
(* chunks; the gate is the only thing the turns share.                     *)
(***************************************************************************)
Structural == {"message_start", "token", "sentence_end"}

\* the last message_start, token or sentence_end event of the chunks g has
\* taken, if any
Last(g) == IF Taken(g) = <<>> THEN <<>> ELSE <<Taken(g)[Len(Taken(g))]>>

\* evs after last, a token event for the bubble of the last token event
\* adding nothing to the sequence of events
Coalesce(last, evs) ==
    IF evs /= <<>> /\ evs[1].type = "token" /\ last = <<evs[1]>> THEN Tail(evs) ELSE evs

\* the session state of the turn g
Own(g) ==
    [pos |-> pos[g], sid |-> sentence_id[g], cur |-> current_sentence[g],
     shown |-> Shown(g), last |-> Last(g)]

\* what a step makes of the turn g: its session state after the step and the
\* message_start, token and sentence_end events the step gives its generator
\* to yield
Step(g) ==
    [pos |-> pos'[g], sid |-> sentence_id'[g], cur |-> current_sentence'[g],
     shown |-> Shown(g)',
     out |-> SubSeq(Taken(g)', Len(Taken(g)) + 1, Len(Taken(g)'))]

\* a step that leaves the turn alone
Idle(o) == [pos |-> o.pos, sid |-> o.sid, cur |-> o.cur, shown |-> o.shown, out |-> <<>>]

\* what a turn running alone makes of the chunk
Alone(o, chunk) ==
    LET first == o.last = <<>>
        sid == IF first THEN 0 ELSE o.sid
        buf == o.cur \o chunk
        k == IF sid + 1 >= max_bubbles THEN -1 ELSE find_sentence_boundary(buf, min_len)
        cut == SliceIndex(k + 1 - Len(o.cur), Len(chunk))
        prefix == SubSeq(chunk, 1, cut)
        suffix == SubSeq(chunk, cut + 1, Len(chunk))
        opened == IF first THEN <<MessageStart(0)>> ELSE <<>>
        shown == IF first THEN <<>> ELSE o.shown[sid + 1]
        tok(id) == [type |-> "token", sid |-> id]
    IN  IF k >= 0
        THEN [pos |-> o.pos + Len(chunk), sid |-> sid + 1,
              cur |-> SubSeq(buf, k + 2, Len(buf)),
              shown |-> SubSeq(o.shown, 1, sid) \o <<shown \o prefix, suffix>>,
              out |-> Coalesce(o.last, opened \o <<tok(sid), SentenceEnd(sid),
                                                   MessageStart(sid + 1), tok(sid + 1)>>)]
        ELSE [pos |-> o.pos + Len(chunk), sid |-> sid, cur |-> buf,
              shown |-> SubSeq(o.shown, 1, sid) \o <<shown \o chunk>>,
              out |-> Coalesce(o.last, opened \o <<tok(sid)>>)]

\* what a turn running alone makes of the end of its producer
AloneEnd(o) ==
    [Idle(o) EXCEPT !.out = IF o.last = <<>> THEN <<>> ELSE <<SentenceEnd(o.sid)>>]

C26_Independence ==
    [][\A g \in Groups :
           /\ SubSeq(events'[g], 1, Len(events[g])) = events[g]
           /\ (events'[g] /= events[g] \/ bubbles'[g] /= bubbles[g]) =>
                  \A h \in Groups \ {g} : events'[h] = events[h] /\ bubbles'[h] = bubbles[h]
           /\ Step(g) /= Idle(Own(g)) =>
                  /\ \A h \in Groups \ {g} : Step(h) = Idle(Own(h))
                  /\ Step(g) = IF pos'[g] > pos[g]
                               THEN Alone(Own(g), SubSeq(text[g], pos[g] + 1, pos'[g]))
                               ELSE AloneEnd(Own(g))]_vars

\* two turns stream side by side, each in its second bubble; the job of one
\* is in the backend call and the job of the other one waits behind it
C26_Witness ==
    /\ turns = Groups
    /\ state["g1"] = "STREAMING" /\ state["g2"] = "STREAMING"
    /\ sentence_id["g1"] = 1 /\ sentence_id["g2"] = 1
    /\ unyielded["g1"] = <<>> /\ unyielded["g2"] = <<>>
    /\ bubbles["g1"][1] = bubbles["g2"][1]
    /\ tts_running = {<<"g2", 0>>}
    /\ tts_queue = <<<<"g1", 0>>>>

(***************************************************************************)
(* C27  The split position is always inside the chunk: the boundary k the  *)
(* detector returns after a chunk is appended satisfies                    *)
(* old_len <= k < old_len + Len(chunk), so that k + 1 - old_len is in      *)
(* 1..Len(chunk): the boundary never lies in text of earlier chunks.       *)
(***************************************************************************)
C27_SplitInsideChunk ==
    [][\A g \in Groups :
           LET chunk == SubSeq(text[g], pos[g] + 1, pos'[g])
               sid == IF state[g] = "AWAITING_FIRST_TOKEN" THEN 0 ELSE sentence_id[g]
               old_len == Len(current_sentence[g])
               k == find_sentence_boundary(current_sentence[g] \o chunk, min_len)
           IN  (pos'[g] > pos[g] /\ sid + 1 < max_bubbles /\ k >= 0) =>
                   /\ old_len <= k
                   /\ k < old_len + Len(chunk)
                   /\ (k + 1 - old_len) \in 1..Len(chunk)]_vars

(***************************************************************************)
(* C28  Text conservation: at every point of a turn the texts of its token *)
(* events, concatenated in emission order over all bubbles, are the        *)
(* producer's chunks consumed so far: no character is dropped, duplicated  *)
(* or moved by a split, by the absorption at the cap or by a dropped       *)
(* split.  The chunk the generator is yielding the events of counts with   *)
(* the events it has still to yield.                                       *)
(***************************************************************************)
RECURSIVE Flatten(_)
Flatten(seqs) == IF seqs = <<>> THEN <<>> ELSE Head(seqs) \o Flatten(Tail(seqs))

C28_TextConservation ==
    \A g \in turns :
        /\ Flatten(Shown(g)) = SubSeq(text[g], 1, pos[g])
        /\ IsPrefix(Flatten(bubbles[g]), SubSeq(text[g], 1, pos[g]))
        /\ (unyielded[g] = <<>>) => bubbles[g] = Shown(g)
        /\ Increasing(Sids(g, "message_start"))
        /\ \A i \in Of(g, {"token"}) : \A k \in Of(g, {"token"}) :
               i < k => events[g][i].sid <= events[g][k].sid

\* the text with two full stops and a paragraph break was streamed: a chunk
\* was cut for the stop at offset 4, which lay in text of earlier chunks, and
\* the bubbles, the first one longer than its sentence, make up the text
C28_Witness ==
    /\ text["g1"] = TextMixed
    /\ pos["g1"] = Len(TextMixed)
    /\ unyielded["g1"] = <<>>
    /\ Len(bubbles["g1"]) >= 2
    /\ tts_tasks["g1"][1].text = SubSeq(TextMixed, 1, 5)
    /\ Len(bubbles["g1"][1]) > 5
    /\ Flatten(bubbles["g1"]) = TextMixed

(***************************************************************************)
(* C29  The framing of the SSE client does not depend on the way the       *)
(* network cuts the response: the events downloadUserVideosStream has      *)
(* passed to onEvent are those of the response text received so far, taken *)
(* as a whole; every record that ends in a blank line, starts with         *)
(* "data: " and holds JSON is passed once, in order, a record cut by a     *)
(* read when its blank line arrives; each call has its own partial record, *)
(* so that calls reading side by side do not disturb each other.           *)
(***************************************************************************)
\* the text of the bytes, decoded in one piece
Decoded(bytes) == decode(<<>>, bytes).out

\* the bytes the call i has read so far
Consumed(i) == SubSeq(Body(i), 1, rpos[i])

\* the events of the records of each body
Event(type) == ObjectValue(<<Word_type>>, <<StringValue(type)>>)
EventWith(type, name, value) ==
    ObjectValue(<<Word_type, name>>, <<StringValue(type), value>>)

Expected ==
    [empty |-> <<>>,
     done |-> <<EventWith(Word_done, Word_succeeded, NumberValue(1, <<1>>, 0))>>,
     open |-> <<Event(Word_extracting)>>,
     unterminated |-> <<>>,
     late |-> <<EventWith(Word_done, Word_succeeded, NumberValue(1, <<1>>, 0)),
                Event(Word_error)>>,
     noise |-> <<Event(Word_done)>>,
     error |-> <<EventWith(Word_extracted, Word_total, NumberValue(1, <<2>>, 0)),
                 EventWith(Word_error, Word_message, StringValue(<<"U+E9">>))>>,
     odd |-> <<Null, EventWith(Word_done, Word_succeeded, StringValue(<<"1">>))>>,
     progress |-> <<EventWith(Word_downloading, Word_remaining, NumberValue(1, <<1>>, 0)),
                    EventWith(Word_downloaded, Word_success, BooleanValue(TRUE))>>,
     throws |-> <<EventWith(Word_done, Word_succeeded,
                            ObjectValue(<<<<"t", "o", "S", "t", "r", "i", "n", "g">>>>,
                                        <<NumberValue(1, <<1>>, 0)>>)),
                  EventWith(Word_downloaded, Word_success, BooleanValue(TRUE))>>]

C29_Framing ==
    \A i \in Calls :
        phase[i] = "reading" =>
            LET parts == split(Decoded(Consumed(i)))
            IN  /\ delivered[i] = EventsOf(Popped(parts))
                /\ buffer[i] = parts[Len(parts)]
                /\ rpos[i] = Len(Body(i)) => delivered[i] = Expected[response[i].body]

\* two calls read side by side: the first one has passed both its records, the
\* second one has passed its first record and holds a part of the second one,
\* cut by the read inside a character of two bytes
C29_Witness ==
    /\ phase = [i \in Calls |-> "reading"]
    /\ response[1].body = "late" /\ Len(delivered[1]) = 2
    /\ response[2].body = "error" /\ Len(delivered[2]) = 1
    /\ decoder[2] = <<"C3">>
    /\ buffer[2] /= <<>>

(***************************************************************************)
(* C30  The client never hangs in 'loading': once the response of a stream *)
(* download has ended, failed or come back not OK, status is 'success' or  *)
(* 'error' and streamAbort is cleared, also when the stream closes without *)
(* a done or error event or when its last record lacks its blank line.     *)
(***************************************************************************)
C30_NeverHangs ==
    \A i \in Calls :
        (phase[i] = "settled" /\ \A k \in Calls : k > i => phase[k] = "none") =>
            /\ status \in {"success", "error"}
            /\ streamAbort = NoCall

(***************************************************************************)
(* C31  Resubmission isolates streams: each handleSubmit aborts the        *)
(* controller of the previous stream and resets the stream state before it *)
(* starts a new stream, so that at most one stream that is not aborted     *)
(* exists at any time; no callback of an aborted stream changes            *)
(* streamEvents, the counters, streamPhase, status or streamAbort of the   *)
(* new stream, and an abort calls no onError.                              *)
(***************************************************************************)
\* the call i of downloadUserVideosStream has not settled
Live(i) == phase[i] \in {"fetching", "error_body", "reading"}

\* the streams that are neither settled nor aborted
NotAborted == {i \in Calls : Live(i) /\ ~aborted[i]}

\* the step is a submission
Submits == \E k \in Calls : phase[k] = "none" /\ phase'[k] /= "none"

\* the step is a step of the call i: its fetch, a read or the end of its body
StepOf(i) == Live(i) /\ (phase'[i] /= phase[i] \/ rpos'[i] /= rpos[i])

C31_Isolation ==
    [][/\ Submits =>
              /\ \A i \in Calls : Live(i) => aborted'[i]
              /\ streamEvents' = <<>>
              /\ streamTotal' = Zero /\ streamSucceeded' = Zero
              /\ streamFailed' = Zero /\ streamRemaining' = Zero
       /\ Cardinality(NotAborted') <= 1
       /\ \A i \in Calls : (aborted[i] /\ StepOf(i)) => page' = page]_vars

====
